---- MODULE Spec2Model ----
(***************************************************************************)
(* The shard block processor of process/block/shardblock.go: the header-   *)
(* tracking table and its completion signal, the finality evaluator, the   *)
(* cross-shard selector, the validator (ProcessBlock), the committer       *)
(* (CommitBlock) and the restorer (RestoreBlockIntoPools).                 *)
(***************************************************************************)
EXTENDS Integers, Sequences, FiniteSets, TLC

\* ------------------------------------------------------------------------
\* Program constants
\* ------------------------------------------------------------------------
MetaBlockFinality == 1
\* the largest uint32; TLC's integers end at 2^31 - 1, which stands for 2^32 - 1
MaxUint32 == 2147483647
\* sharding.MetachainShardId
MetachainShardId == MaxUint32
SelfId == 0

\* uint32 arithmetic: x++ and x--, wrapping
IncUint32(x) == IF x = MaxUint32 THEN 0 ELSE x + 1
DecUint32(x) == IF x = 0 THEN MaxUint32 ELSE x - 1

\* ------------------------------------------------------------------------
\* Bounds of the model
\* ------------------------------------------------------------------------
MaxCycles == 2
MaxDisp == 2
MaxMiniBlocksInBlock == 3

\* ------------------------------------------------------------------------
\* Miniblocks, hashing and marshalling
\* ------------------------------------------------------------------------
RECURSIVE SeqCode(_)
SeqCode(s) == IF s = <<>> THEN 0 ELSE SeqCode(SubSeq(s, 1, Len(s) - 1)) * 10 + s[Len(s)]

TypeCode(t) == CASE t = "TxBlock" -> 1
                 [] t = "SmartContractResultBlock" -> 2
                 [] t = "RewardsBlock" -> 3
                 [] OTHER -> 4

\* marshalizer.Marshal of a miniblock followed by hasher.Compute: a code of
\* every field of the miniblock (injective on the miniblocks of the model)
MiniBlockHash(mb) ==
    SeqCode(mb.TxHashes) * 1000 + TypeCode(mb.Type) * 100
        + mb.SenderShardID * 10 + mb.ReceiverShardID

MkMiniBlock(s, r, t, txs) ==
    [SenderShardID |-> s, ReceiverShardID |-> r, Type |-> t, TxHashes |-> txs]

mb1 == MkMiniBlock(1, SelfId, "TxBlock", <<1>>)
mb2 == MkMiniBlock(1, SelfId, "TxBlock", <<2, 3>>)
mb3 == MkMiniBlock(2, SelfId, "TxBlock", <<4>>)
mbOwn == MkMiniBlock(SelfId, SelfId, "TxBlock", <<5>>)

\* ------------------------------------------------------------------------
\* Metablocks
\* ------------------------------------------------------------------------
MkMeta(n, r, ph, prs, rs, salt, mbs) ==
    [Nonce |-> n, Round |-> r, PrevHash |-> ph, PrevRandSeed |-> prs,
     RandSeed |-> rs, Salt |-> salt, MiniBlocksDstMe |-> mbs]

\* the nil data.HeaderHandler
NilHdr == MkMeta(0, 0, 0, 0, 0, 9, {})

\* core.CalculateHash of a metablock: Marshal then hasher.Compute. Salt stands
\* for the fields of the serialization the processor never reads.
MetaHash(m) == m.Nonce * 10 + m.Salt

MetaG == MkMeta(1, 1, 0, 0, 11, 0, {})
MetaA == MkMeta(2, 2, MetaHash(MetaG), 11, 12, 0, {MiniBlockHash(mb1), MiniBlockHash(mb2)})
MetaB == MkMeta(3, 3, MetaHash(MetaA), 12, 13, 0, {MiniBlockHash(mb3)})
\* a header of nonce 3 built on MetaA with a wrong PrevRandSeed
MetaX == MkMeta(3, 3, MetaHash(MetaA), 77, 14, 1, {})
MetaC == MkMeta(4, 4, MetaHash(MetaB), 13, 15, 0, {})
MetaD == MkMeta(5, 5, MetaHash(MetaC), 15, 16, 0, {})

AllMeta == {MetaG, MetaA, MetaB, MetaX, MetaC, MetaD}
AllMetaHashes == {MetaHash(m) : m \in AllMeta}

\* what the network serves for a hash
MetaOf(h) == CHOOSE m \in AllMeta : MetaHash(m) = h

\* metaBlock.GetMiniBlockHeadersWithDst(selfId): the keys of the returned map
GetMiniBlockHeadersWithDst(m) == m.MiniBlocksDstMe

\* ------------------------------------------------------------------------
\* Sorting by nonce (sort.Slice with a "<" on nonces)
\* ------------------------------------------------------------------------
RECURSIVE SortByNonce(_)
SortByNonce(S) ==
    IF S = {} THEN <<>>
    ELSE LET m == CHOOSE x \in S : \A y \in S : x.Nonce < y.Nonce
                       \/ (x.Nonce = y.Nonce /\ MetaHash(x) <= MetaHash(y))
         IN <<m>> \o SortByNonce(S \ {m})

Range(s) == {s[i] : i \in DOMAIN s}


\* the headers of a set in every order, as the keys of the pool come
RECURSIVE UnsortedSeqs(_)
UnsortedSeqs(S) ==
    IF S = {} THEN {<<>>}
    ELSE UNION {{<<m>> \o t : t \in UnsortedSeqs(S \ {m})} : m \in S}

\* every order sort.Slice may leave a set of headers in: non-decreasing nonce,
\* headers of equal nonce in either order (the sort is not stable)
RECURSIVE SortedSeqs(_)
SortedSeqs(S) ==
    IF S = {} THEN {<<>>}
    ELSE UNION {{<<m>> \o t : t \in SortedSeqs(S \ {m})} :
                    m \in {x \in S : \A y \in S : x.Nonce <= y.Nonce}}

\* ------------------------------------------------------------------------
\* Shard headers and bodies
\* ------------------------------------------------------------------------
\* a miniblock header that does not count the transactions
MkMiniBlockHeaderNoCount(mb) ==
    [Hash |-> MiniBlockHash(mb), SenderShardID |-> mb.SenderShardID,
     ReceiverShardID |-> mb.ReceiverShardID, TxCount |-> 0, Type |-> mb.Type]

MkMiniBlockHeader(mb) ==
    [Hash |-> MiniBlockHash(mb), SenderShardID |-> mb.SenderShardID,
     ReceiverShardID |-> mb.ReceiverShardID, TxCount |-> Len(mb.TxHashes),
     Type |-> mb.Type]

MkHeader(n, r, ph, metas, mbhs, root) ==
    [Nonce |-> n, Round |-> r, PrevHash |-> ph, MetaBlockHashes |-> metas,
     MiniBlockHeaders |-> mbhs, TxCount |-> 0, RootHash |-> root]

\* the transactions in a sequence of miniblocks
RECURSIVE TxsIn(_)
TxsIn(mbs) == IF mbs = <<>> THEN 0 ELSE Len(mbs[1].TxHashes) + TxsIn(Tail(mbs))

\* core.CalculateHash of a shard header
HeaderHash(h) ==
    1000000 + h.Nonce * 100000 + SeqCode([i \in DOMAIN h.MetaBlockHashes |->
                                             h.MetaBlockHashes[i] % 7]) * 100
        + Len(h.MiniBlockHeaders) * 10 + h.RootHash

GenesisHeader == MkHeader(0, 0, 0, <<>>, <<>>, 0)

NoBlock == [hdr |-> GenesisHeader, body |-> <<>>]

\* header.GetMiniBlockHeadersWithDst(selfId): the cross-shard miniblock headers
\* of a shard header whose receiver is the self shard
HdrMiniBlockHeadersWithDst(h) ==
    {h.MiniBlockHeaders[i].Hash : i \in {j \in DOMAIN h.MiniBlockHeaders :
        /\ h.MiniBlockHeaders[j].ReceiverShardID = SelfId
        /\ h.MiniBlockHeaders[j].SenderShardID # SelfId}}

\* ------------------------------------------------------------------------
\* State
\* ------------------------------------------------------------------------
VARIABLES
    pc,                       \* where the driver thread is
    cur,                      \* the header and body of the running cycle
    err,                      \* the error variable of the running call
    loc,                      \* the driver's locals
    hdrHashAndInfo,           \* hdrsForCurrBlock.hdrHashAndInfo
    missingHdrs,              \* hdrsForCurrBlock.missingHdrs
    missingFinalHdrs,         \* hdrsForCurrBlock.missingFinalHdrs
    currHighestMetaHdrNonce,  \* sp.currHighestMetaHdrNonce
    mutHdrsForBlock,          \* who holds hdrsForCurrBlock.mutHdrsForBlock
    mutProcessedMiniBlocks,   \* who holds mutProcessedMiniBlocks
    disp,                     \* the receivedMetaBlock goroutines
    pool,                     \* dataPool.MetaBlocks(): hashes of the metablocks held
    headersNonces,            \* dataPool.HeadersNonces(): <<nonce, shard>> -> hash
    store,                    \* the storage units
    processedMiniBlocks,      \* sp.processedMiniBlocks
    notarizedHdrs,            \* notarizedHdrs[MetachainShardId]
    journalLen,               \* accounts.JournalLen()
    blockchain,               \* chainHandler: the current block
    requests,                 \* requests handed to the request handler in this cycle
    hist                      \* history of the run, read by the properties only

vars == <<pc, cur, err, loc, hdrHashAndInfo, missingHdrs, missingFinalHdrs,
          currHighestMetaHdrNonce, mutHdrsForBlock, mutProcessedMiniBlocks, disp,
          pool, headersNonces,
          store, processedMiniBlocks, notarizedHdrs, journalLen, blockchain,
          requests, hist>>

tableVars == <<hdrHashAndInfo, missingHdrs, missingFinalHdrs, currHighestMetaHdrNonce>>
poolVars == <<pool, headersNonces>>
chainVars == <<store, processedMiniBlocks, notarizedHdrs, blockchain>>
mutexVars == <<mutHdrsForBlock, mutProcessedMiniBlocks>>

Disp == 1 .. MaxDisp

\* ------------------------------------------------------------------------
\* Maps
\* ------------------------------------------------------------------------
EmptyMap == [x \in {} |-> 0]
MapPut(f, k, v) == [x \in DOMAIN f \cup {k} |-> IF x = k THEN v ELSE f[x]]
MapDel(f, k) == [x \in DOMAIN f \ {k} |-> f[x]]

HdrInfo(h, used) == [hdr |-> h, usedInBlock |-> used]

\* process.GetMetaHeaderFromPool: the metablock under a hash, if the pool has it
InPool(pl, h) == h \in pl

\* process.GetMetaHeaderFromPoolWithNonce: the hash the nonces pool gives for
\* the metachain at a nonce, if the metablock pool holds that hash
PoolHasNonce(pl, hn, n) ==
    /\ <<n, MetachainShardId>> \in DOMAIN hn
    /\ hn[<<n, MetachainShardId>>] \in pl

\* ------------------------------------------------------------------------
\* Construction validity and finality
\* ------------------------------------------------------------------------
\* baseProcessor.isHdrConstructionValid: "nil" or the error
isHdrConstructionValid(currHdr, prevHdr) ==
    IF prevHdr = NilHdr THEN "ErrNilBlockHeader"
    ELSE IF prevHdr.Round >= currHdr.Round THEN "ErrLowerRoundInBlock"
    ELSE IF currHdr.Nonce # prevHdr.Nonce + 1 THEN "ErrWrongNonceInBlock"
    ELSE IF currHdr.PrevRandSeed # prevHdr.RandSeed THEN "ErrRandSeedMismatch"
    ELSE IF currHdr.PrevHash # MetaHash(prevHdr) THEN "ErrBlockHashDoesNotMatch"
    ELSE "nil"

\* the loop of checkMetaHdrFinality over the sorted not-used headers: the
\* last verified header and the number of successors verified
RECURSIVE finalityLoop(_, _, _, _)
finalityLoop(finalMetaHdrs, i, lastVerifiedHdr, nextBlocksVerified) ==
    IF i > Len(finalMetaHdrs) \/ nextBlocksVerified >= MetaBlockFinality
    THEN [last |-> lastVerifiedHdr, n |-> nextBlocksVerified]
    ELSE IF /\ finalMetaHdrs[i].Nonce = lastVerifiedHdr.Nonce + 1
            /\ isHdrConstructionValid(finalMetaHdrs[i], lastVerifiedHdr) = "nil"
         THEN finalityLoop(finalMetaHdrs, i + 1, finalMetaHdrs[i], nextBlocksVerified + 1)
         ELSE finalityLoop(finalMetaHdrs, i + 1, lastVerifiedHdr, nextBlocksVerified)

\* a finality check that reports a header not final and requests nothing
checkMetaHdrFinalityNoRequest(header, finalMetaHdrs) ==
    IF header = NilHdr THEN [err |-> "ErrNilBlockHeader", req |-> {}]
    ELSE IF finalityLoop(finalMetaHdrs, 1, header, 0).n < MetaBlockFinality
         THEN [err |-> "ErrHeaderNotFinal", req |-> {}]
         ELSE [err |-> "nil", req |-> {}]

\* checkMetaHdrFinality: "nil" or the error, and the by-nonce request it emits
checkMetaHdrFinality(header, finalMetaHdrs) ==
    IF header = NilHdr THEN [err |-> "ErrNilBlockHeader", req |-> {}]
    ELSE LET r == finalityLoop(finalMetaHdrs, 1, header, 0)
         IN IF r.n < MetaBlockFinality
            THEN [err |-> "ErrHeaderNotFinal", req |-> {r.last.Nonce + 1}]
            ELSE [err |-> "nil", req |-> {}]

\* isMetaHeaderFinal: the selector's finality test over the rest of the sorted
\* pool candidates, from startPos on
RECURSIVE isMetaHeaderFinalLoop(_, _, _, _)
isMetaHeaderFinalLoop(sortedHdrs, i, lastVerifiedHdr, nextBlocksVerified) ==
    IF i > Len(sortedHdrs) THEN nextBlocksVerified >= MetaBlockFinality
    ELSE IF nextBlocksVerified >= MetaBlockFinality THEN TRUE
    ELSE IF /\ sortedHdrs[i].Nonce = lastVerifiedHdr.Nonce + 1
            /\ isHdrConstructionValid(sortedHdrs[i], lastVerifiedHdr) = "nil"
         THEN isMetaHeaderFinalLoop(sortedHdrs, i + 1, sortedHdrs[i], nextBlocksVerified + 1)
         ELSE isMetaHeaderFinalLoop(sortedHdrs, i + 1, lastVerifiedHdr, nextBlocksVerified)

\* a selector that takes every header for final
isMetaHeaderFinalAlways(currHdr, sortedHdrs, startPos) == currHdr # NilHdr

isMetaHeaderFinal(currHdr, sortedHdrs, startPos) ==
    IF currHdr = NilHdr THEN FALSE
    ELSE isMetaHeaderFinalLoop(sortedHdrs, startPos, currHdr, 0)

\* ------------------------------------------------------------------------
\* The header-tracking table
\* ------------------------------------------------------------------------
UsedHashes(tbl) == {h \in DOMAIN tbl : tbl[h].usedInBlock}
UsedHdrs(tbl) == {tbl[h].hdr : h \in UsedHashes(tbl)}
NotUsedHdrs(tbl) == {tbl[h].hdr : h \in DOMAIN tbl \ UsedHashes(tbl)}

\* sortHdrsForCurrentBlock fails on an entry whose hdr is nil (the type assertion)
sortHdrsFails(tbl, used) ==
    \E h \in DOMAIN tbl : tbl[h].usedInBlock = used /\ tbl[h].hdr = NilHdr

\* baseProcessor.getLastNotarizedHdr(MetachainShardId)
getLastNotarizedHdr(slice) == slice[Len(slice)]

\* the loop of checkMetaHeadersValidityAndFinality over the used headers
RECURSIVE validityLoop(_, _, _)
validityLoop(usedMetaHdrs, i, tmpNotedHdr) ==
    IF i > Len(usedMetaHdrs) THEN [err |-> "nil", last |-> tmpNotedHdr]
    ELSE LET e == isHdrConstructionValid(usedMetaHdrs[i], tmpNotedHdr)
         IN IF e # "nil" THEN [err |-> e, last |-> tmpNotedHdr]
            ELSE validityLoop(usedMetaHdrs, i + 1, usedMetaHdrs[i])

\* checkMetaHeadersValidityAndFinality, for one order of each sorted list
checkMetaHeadersValidityAndFinality(tbl, slice, usedMetaHdrs, finalMetaHdrs) ==
    IF sortHdrsFails(tbl, TRUE) THEN [err |-> "ErrWrongTypeAssertion", req |-> {}]
    ELSE IF Len(usedMetaHdrs) = 0 THEN [err |-> "nil", req |-> {}]
    ELSE LET v == validityLoop(usedMetaHdrs, 1, getLastNotarizedHdr(slice))
         IN IF v.err # "nil" THEN [err |-> v.err, req |-> {}]
            ELSE IF sortHdrsFails(tbl, FALSE)
                 THEN [err |-> "ErrWrongTypeAssertion", req |-> {}]
                 ELSE checkMetaHdrFinality(v.last, finalMetaHdrs)

\* a collection that takes the miniblocks of every entry of the table, used or not
getAllMiniBlockDstMeFromTable(tbl, slice, round) ==
    LET lastHdr == getLastNotarizedHdr(slice)
    IN UNION {GetMiniBlockHeadersWithDst(tbl[h].hdr) :
                h \in {x \in DOMAIN tbl :
                         /\ tbl[x].hdr # NilHdr
                         /\ tbl[x].hdr.Round <= round
                         /\ tbl[x].hdr.Round > lastHdr.Round
                         /\ tbl[x].hdr.Nonce > lastHdr.Nonce}}

\* getAllMiniBlockDstMeFromMeta: the self-destined miniblock hashes of the used
\* metablocks of the table in the round and nonce window
getAllMiniBlockDstMeFromMeta(tbl, slice, round) ==
    LET lastHdr == getLastNotarizedHdr(slice)
    IN UNION {GetMiniBlockHeadersWithDst(tbl[h].hdr) :
                h \in {x \in UsedHashes(tbl) :
                         /\ tbl[x].hdr # NilHdr
                         /\ tbl[x].hdr.Round <= round
                         /\ tbl[x].hdr.Round > lastHdr.Round
                         /\ tbl[x].hdr.Nonce > lastHdr.Nonce}}

verifyCrossShardMiniBlockDstMe(tbl, slice, hdr) ==
    IF HdrMiniBlockHeadersWithDst(hdr) \subseteq getAllMiniBlockDstMeFromMeta(tbl, slice, hdr.Round)
    THEN "nil"
    ELSE "ErrCrossShardMBWithoutConfirmationFromMeta"

\* requestFinalMissingHeaders: the number of final headers requested, the table
\* with the final headers found in the pool, and the nonces requested
RECURSIVE requestFinalLoop(_, _, _, _, _)
requestFinalLoop(tbl, i, highest, pl, hn) ==
    IF i > highest + MetaBlockFinality
    THEN [n |-> 0, tbl |-> tbl, req |-> {}]
    ELSE IF highest = 0 THEN requestFinalLoop(tbl, i + 1, highest, pl, hn)
    ELSE IF ~PoolHasNonce(pl, hn, i)
         THEN LET r == requestFinalLoop(tbl, i + 1, highest, pl, hn)
              IN [n |-> r.n + 1, tbl |-> r.tbl, req |-> r.req \cup {i}]
         ELSE LET h == hn[<<i, MetachainShardId>>]
              IN requestFinalLoop(MapPut(tbl, h, HdrInfo(MetaOf(h), FALSE)),
                                  i + 1, highest, pl, hn)

requestFinalMissingHeaders(tbl, highest, pl, hn) ==
    requestFinalLoop(tbl, highest + 1, highest, pl, hn)

\* ------------------------------------------------------------------------
\* Header/body correlation
\* ------------------------------------------------------------------------
\* mbHashesFromHdr: the header entry kept for a hash is the last one with it
mbHashesFromHdr(hdr, hash) ==
    hdr.MiniBlockHeaders[CHOOSE i \in DOMAIN hdr.MiniBlockHeaders :
        /\ hdr.MiniBlockHeaders[i].Hash = hash
        /\ \A j \in DOMAIN hdr.MiniBlockHeaders :
              hdr.MiniBlockHeaders[j].Hash = hash => j <= i]

checkHeaderBodyCorrelation(hdr, body) ==
    IF Len(hdr.MiniBlockHeaders) # Len(body) THEN "ErrHeaderBodyMismatch"
    ELSE IF \E i \in DOMAIN body :
              \/ MiniBlockHash(body[i]) \notin
                    {hdr.MiniBlockHeaders[j].Hash : j \in DOMAIN hdr.MiniBlockHeaders}
              \/ LET mbHdr == mbHashesFromHdr(hdr, MiniBlockHash(body[i]))
                 IN \/ mbHdr.TxCount # Len(body[i].TxHashes)
                    \/ mbHdr.ReceiverShardID # body[i].ReceiverShardID
                    \/ mbHdr.SenderShardID # body[i].SenderShardID
         THEN "ErrHeaderBodyMismatch"
         ELSE "nil"

\* baseProcessor.checkBlockValidity: the header chains on the current block
checkBlockValidity(chain, hdr) ==
    IF hdr.Nonce # chain.hdr.Nonce + 1 THEN "ErrWrongNonceInBlock"
    ELSE IF hdr.PrevHash # HeaderHash(chain.hdr) THEN "ErrBlockHashDoesNotMatch"
    ELSE "nil"

\* ------------------------------------------------------------------------
\* The blocks handed to ProcessBlock
\* ------------------------------------------------------------------------
HdrRound == 5

\* a header built for a body, on the current block
HeaderFor(chain, round, metas, body, root) ==
    [MkHeader(chain.hdr.Nonce + 1, round, HeaderHash(chain.hdr), metas,
              [i \in DOMAIN body |-> MkMiniBlockHeader(body[i])], root)
        EXCEPT !.TxCount = TxsIn(body)]

hA == MetaHash(MetaA)
hB == MetaHash(MetaB)
hC == MetaHash(MetaC)
hD == MetaHash(MetaD)
hX == MetaHash(MetaX)

IncomingBlocks(chain) ==
    {[hdr |-> HeaderFor(chain, HdrRound, <<>>, <<mbOwn>>, 1), body |-> <<mbOwn>>],
     [hdr |-> HeaderFor(chain, HdrRound, <<hA>>, <<mb1, mb2>>, 1), body |-> <<mb1, mb2>>],
     [hdr |-> HeaderFor(chain, HdrRound, <<hA, hB>>, <<mb1, mb2, mb3>>, 1), body |-> <<mb1, mb2, mb3>>],
     [hdr |-> HeaderFor(chain, HdrRound, <<hA, hA>>, <<mb1, mb2>>, 1), body |-> <<mb1, mb2>>],
     [hdr |-> HeaderFor(chain, HdrRound, <<>>, <<>>, 1), body |-> <<mbOwn>>]}

\* ------------------------------------------------------------------------
\* Initial state
\* ------------------------------------------------------------------------
NoLoc == [kind |-> "none", missingHeadersHashes |-> <<>>, requestedMetaHdrs |-> 0,
          requestedFinalMetaHdrs |-> 0, waitErr |-> "nil", done |-> "none",
          round |-> 0, maxItems |-> 0, orderedMetaBlocks |-> <<>>,
          haveTime |-> TRUE, remaining |-> 1,
          sel |-> [timeUp |-> FALSE, stop |-> "none", miniBlocks |-> 0, seen |-> <<>>,
                  calls |-> <<>>, txsAdded |-> 0, hdrsAdded |-> 0,
                   lastMetaHdr |-> NilHdr],
          steps |-> <<>>]

NoWait == [res |-> "none", all |-> FALSE, quiet |-> FALSE, cycle |-> 0]

NoSnapshot == [pool |-> {}, headersNonces |-> EmptyMap, ledger |-> EmptyMap,
               notarized |-> <<>>]

NoHist == [cycles |-> 0, raised |-> 0, mutated |-> FALSE, reverted |-> FALSE,
           waited |-> NoWait, validated |-> FALSE, last |-> "none",
           pre |-> NoSnapshot, commits |-> 0, processed |-> 0, putErr |-> FALSE]

IdleDisp == [pc |-> "idle", hash |-> 0, cycle |-> 0]

InitCommon ==
    /\ pc = "idle"
    /\ err = "nil"
    /\ loc = NoLoc
    /\ hdrHashAndInfo = EmptyMap
    /\ missingHdrs = 0
    /\ missingFinalHdrs = 0
    /\ currHighestMetaHdrNonce = 0
    /\ mutHdrsForBlock = "free"
    /\ mutProcessedMiniBlocks = "free"
    /\ disp = [d \in Disp |-> IdleDisp]
    /\ store = EmptyMap
    /\ processedMiniBlocks = EmptyMap
    /\ notarizedHdrs = <<MetaG>>
    /\ journalLen = 0
    /\ blockchain = NoBlock
    /\ requests = <<>>
    /\ hist = NoHist

Init ==
    /\ InitCommon
    /\ cur = NoBlock
    /\ pool = {}
    /\ headersNonces = EmptyMap

\* the requests handed to onRequestHeaderHandlerByNonce for a set of nonces
RECURSIVE ByNonce(_)
ByNonce(S) ==
    IF S = {} THEN <<>>
    ELSE LET n == CHOOSE x \in S : \A y \in S : x <= y
         IN <<[by |-> "nonce", key |-> n]>> \o ByNonce(S \ {n})

\* ------------------------------------------------------------------------
\* The pool-notification path: receivedMetaBlock
\* ------------------------------------------------------------------------
ArrivableHashes == {hA, hB, hC}

\* a metablock reaches the pool (interceptor: pool Put and nonces Merge) and
\* the pool starts the registered handler in a goroutine of its own
Arrive(h, d) ==
    /\ h \notin pool
    /\ disp[d].pc = "idle"
    /\ \A e \in Disp : disp[e].pc = "idle" => d <= e
    /\ pool' = pool \cup {h}
    /\ headersNonces' = MapPut(headersNonces, <<MetaOf(h).Nonce, MetachainShardId>>, h)
    /\ disp' = [disp EXCEPT ![d] = [pc |-> "called", hash |-> h, cycle |-> 0]]
    /\ UNCHANGED <<pc, cur, err, loc, tableVars, mutexVars, chainVars,
                   journalLen, requests, hist>>

\* the guard of receivedMetaBlock's critical section
receivedGuard(mh, mfh) == mh > 0 \/ mfh > 0

\* receivedMetaBlock, from Lock to Unlock: fills the entry of the hash if it is
\* there with no header, re-counts the final headers once no header is missing,
\* and decides from the counters read under the lock whether to signal
receivedMetaBlock(d) ==
    /\ disp[d].pc = "called"
    /\ mutHdrsForBlock = "free"
    /\ mutProcessedMiniBlocks = "free"
    /\ disp[d].hash \in pool
    /\ LET h == disp[d].hash
           metaBlock == MetaOf(h)
           fill == h \in DOMAIN hdrHashAndInfo /\ hdrHashAndInfo[h].hdr = NilHdr
           tbl1 == IF fill
                   THEN [hdrHashAndInfo EXCEPT ![h] = HdrInfo(metaBlock, @.usedInBlock)]
                   ELSE hdrHashAndInfo
           mh1 == IF fill THEN DecUint32(missingHdrs) ELSE missingHdrs
           high1 == IF fill /\ metaBlock.Nonce > currHighestMetaHdrNonce
                    THEN metaBlock.Nonce ELSE currHighestMetaHdrNonce
           rf == requestFinalMissingHeaders(tbl1, high1, pool, headersNonces)
       IN IF receivedGuard(missingHdrs, missingFinalHdrs)
          THEN /\ hdrHashAndInfo' = IF mh1 = 0 THEN rf.tbl ELSE tbl1
               /\ missingHdrs' = mh1
               /\ missingFinalHdrs' = IF mh1 = 0 THEN rf.n ELSE missingFinalHdrs
               /\ currHighestMetaHdrNonce' = high1
               /\ requests' = IF mh1 = 0 THEN requests \o ByNonce(rf.req) ELSE requests
               /\ disp' = [disp EXCEPT ![d] =
                    IF mh1 = 0 /\ missingFinalHdrs' = 0
                    THEN [pc |-> "decided", hash |-> h, cycle |-> hist.cycles]
                    ELSE IdleDisp]
          ELSE /\ UNCHANGED <<tableVars, requests>>
               /\ disp' = [disp EXCEPT ![d] = IdleDisp]
    /\ UNCHANGED <<pc, cur, err, loc, mutexVars, poolVars, chainVars,
                   journalLen, hist>>

\* sp.chRcvAllMetaHdrs <- true: the goroutine reaches the send and blocks in it
\* until the driver receives (the channel has no buffer)
SendSignal(d) ==
    /\ disp[d].pc = "decided"
    /\ disp' = [disp EXCEPT ![d].pc = "blocked"]
    /\ hist' = [hist EXCEPT !.raised = @ + 1]
    /\ UNCHANGED <<pc, cur, err, loc, tableVars, mutexVars, poolVars,
                   chainVars, journalLen, requests>>

\* ------------------------------------------------------------------------
\* The driver: ProcessBlock
\* ------------------------------------------------------------------------
Return(e) ==
    /\ err' = e
    /\ pc' = "returned"

\* ProcessBlock up to SetShardConsensusData: the nil test of haveTime, block
\* validity, the casts and the header/body correlation
ProcessBlock(b) ==
    /\ pc = "idle"
    /\ hist.cycles < MaxCycles
    /\ cur' = b
    /\ loc' = [NoLoc EXCEPT !.kind = "process"]
    /\ hist' = [hist EXCEPT !.mutated = FALSE, !.reverted = FALSE, !.waited = NoWait,
                             !.validated = FALSE, !.last = "none"]
    /\ \E haveTime \in {"nil", "func"} :
          LET e1 == checkBlockValidity(blockchain, b.hdr)
              e2 == checkHeaderBodyCorrelation(b.hdr, b.body)
          IN IF haveTime = "nil" THEN Return("ErrNilHaveTimeHandler")
             ELSE IF e1 # "nil" THEN Return(e1)
             ELSE IF e2 # "nil" THEN Return(e2)
             ELSE err' = "nil" /\ pc' = "CreateBlockStarted"
    /\ UNCHANGED <<tableVars, mutexVars, disp, poolVars, chainVars,
                   journalLen, requests>>

\* CreateBlockStarted: the reset of the header-tracking table under its lock
CreateBlockStarted ==
    /\ pc = "CreateBlockStarted"
    /\ mutHdrsForBlock = "free"
    /\ mutProcessedMiniBlocks = "free"
    /\ missingHdrs' = 0
    /\ missingFinalHdrs' = 0
    /\ hdrHashAndInfo' = EmptyMap
    /\ requests' = <<>>
    /\ hist' = [hist EXCEPT !.cycles = @ + 1, !.raised = 0]
    /\ pc' = IF loc.kind = "process" THEN "requestMetaHeaders" ELSE "createMiniBlocks"
    /\ UNCHANGED <<cur, err, loc, currHighestMetaHdrNonce, mutexVars, disp,
                   poolVars, chainVars, journalLen>>

\* process.EmptyChannel(sp.chRcvAllMetaHdrs): receives from every goroutine
\* blocked in the send, until none is
EmptyChannel(dp) ==
    [d \in Disp |-> IF dp[d].pc = "blocked" THEN IdleDisp ELSE dp[d]]

\* requestMetaHeaders, its first two statements
requestMetaHeaders ==
    /\ pc = "requestMetaHeaders"
    /\ disp' = EmptyChannel(disp)
    /\ pc' = IF Len(cur.hdr.MetaBlockHashes) = 0 THEN "haveTime"
             ELSE "computeMissingAndExistingMetaHeaders"
    /\ UNCHANGED <<cur, err, loc, tableVars, mutexVars, poolVars, chainVars,
                   journalLen, requests, hist>>

\* the loop of computeMissingAndExistingMetaHeaders over header.MetaBlockHashes
RECURSIVE computeLoop(_, _, _, _)
computeLoop(hashes, i, acc, pl) ==
    IF i > Len(hashes) THEN acc
    ELSE IF ~InPool(pl, hashes[i])
         THEN computeLoop(hashes, i + 1,
                  [acc EXCEPT !.missing = Append(@, hashes[i]),
                              !.missingHdrs = IncUint32(@)], pl)
         ELSE computeLoop(hashes, i + 1,
                  [acc EXCEPT !.tbl = MapPut(@, hashes[i], HdrInfo(MetaOf(hashes[i]), TRUE)),
                              !.highest = IF MetaOf(hashes[i]).Nonce > @
                                          THEN MetaOf(hashes[i]).Nonce ELSE @], pl)

computeMissingAndExistingMetaHeaders ==
    /\ pc = "computeMissingAndExistingMetaHeaders"
    /\ mutHdrsForBlock = "free"
    /\ mutProcessedMiniBlocks = "free"
    /\ LET r == computeLoop(cur.hdr.MetaBlockHashes, 1,
                    [missing |-> <<>>, missingHdrs |-> missingHdrs,
                     tbl |-> hdrHashAndInfo, highest |-> 0], pool)
       IN /\ hdrHashAndInfo' = r.tbl
          /\ missingHdrs' = r.missingHdrs
          /\ currHighestMetaHdrNonce' = r.highest
          /\ loc' = [loc EXCEPT !.missingHeadersHashes = r.missing]
    /\ pc' = "insertMissing"
    /\ UNCHANGED <<cur, err, missingFinalHdrs, mutexVars, disp, poolVars,
                   chainVars, journalLen, requests, hist>>

\* the entries requestMetaHeaders inserts for the missing hashes
RECURSIVE insertNil(_, _, _)
insertNil(tbl, hashes, i) ==
    IF i > Len(hashes) THEN tbl
    ELSE insertNil(MapPut(tbl, hashes[i], HdrInfo(NilHdr, TRUE)), hashes, i + 1)

\* requestMetaHeaders, its second critical section
insertMissing ==
    /\ pc = "insertMissing"
    /\ mutHdrsForBlock = "free"
    /\ mutProcessedMiniBlocks = "free"
    /\ LET tbl1 == insertNil(hdrHashAndInfo, loc.missingHeadersHashes, 1)
           req1 == [i \in DOMAIN loc.missingHeadersHashes |->
                       [by |-> "hash", key |-> loc.missingHeadersHashes[i]]]
           rf == requestFinalMissingHeaders(tbl1, currHighestMetaHdrNonce, pool, headersNonces)
       IN IF missingHdrs = 0
          THEN /\ hdrHashAndInfo' = rf.tbl
               /\ missingFinalHdrs' = rf.n
               /\ requests' = requests \o req1 \o ByNonce(rf.req)
               /\ loc' = [loc EXCEPT !.requestedMetaHdrs = missingHdrs,
                                     !.requestedFinalMetaHdrs = rf.n]
          ELSE /\ hdrHashAndInfo' = tbl1
               /\ missingFinalHdrs' = missingFinalHdrs
               /\ requests' = requests \o req1
               /\ loc' = [loc EXCEPT !.requestedMetaHdrs = missingHdrs,
                                     !.requestedFinalMetaHdrs = missingFinalHdrs]
    /\ pc' = "haveTime"
    /\ UNCHANGED <<cur, err, missingHdrs, currHighestMetaHdrNonce, mutexVars,
                   disp, poolVars, chainVars, journalLen, hist>>

\* if haveTime() < 0
haveTimeCheck ==
    /\ pc = "haveTime"
    /\ \E remaining \in {-1, 0, 1} :
          /\ loc' = [loc EXCEPT !.remaining = remaining]
          /\ IF remaining < 0 THEN Return("ErrTimeIsOut")
             ELSE err' = err /\ pc' = "IsDataPreparedForProcessing"
    /\ UNCHANGED <<cur, tableVars, mutexVars, disp, poolVars, chainVars,
                   journalLen, requests, hist>>

\* txCoordinator.IsDataPreparedForProcessing(haveTime), then the test that
\* decides whether to wait
IsDataPreparedForProcessing ==
    /\ pc = "IsDataPreparedForProcessing"
    /\ \E e \in {"nil", "ErrTimeIsOut"} :
          IF e # "nil" THEN Return(e)
          ELSE /\ err' = err
               /\ pc' = IF loc.requestedMetaHdrs > 0 \/ loc.requestedFinalMetaHdrs > 0
                        THEN "waitForMetaHdrHashes" ELSE "checkJournal"
    /\ UNCHANGED <<cur, loc, tableVars, mutexVars, disp, poolVars, chainVars,
                   journalLen, requests, hist>>

\* the headers the cycle of a header needs: every hash of MetaBlockHashes, and
\* the MetaBlockFinality headers above the highest of them
MaxNonce(hashes) ==
    LET S == {MetaOf(hashes[i]).Nonce : i \in DOMAIN hashes}
    IN IF S = {} THEN 0 ELSE CHOOSE n \in S : \A k \in S : k <= n

NeededInPool(hdr, pl, hn) ==
    /\ \A i \in DOMAIN hdr.MetaBlockHashes : hdr.MetaBlockHashes[i] \in pl
    /\ \A i \in 1 .. MetaBlockFinality :
          PoolHasNonce(pl, hn, MaxNonce(hdr.MetaBlockHashes) + i)

\* waitForMetaHdrHashes, the receive from sp.chRcvAllMetaHdrs
waitReceive(d) ==
    /\ pc = "waitForMetaHdrHashes"
    /\ disp[d].pc = "blocked"
    /\ disp' = [disp EXCEPT ![d] = IdleDisp]
    /\ loc' = [loc EXCEPT !.waitErr = "nil"]
    /\ hist' = [hist EXCEPT !.waited =
                  [res |-> "received", all |-> NeededInPool(cur.hdr, pool, headersNonces),
                   quiet |-> FALSE, cycle |-> disp[d].cycle]]
    /\ pc' = "postWait"
    /\ UNCHANGED <<cur, err, tableVars, mutexVars, poolVars, chainVars,
                   journalLen, requests>>

\* waitForMetaHdrHashes, the timer
waitTimeout ==
    /\ pc = "waitForMetaHdrHashes"
    /\ loc' = [loc EXCEPT !.waitErr = "ErrTimeIsOut"]
    /\ hist' = [hist EXCEPT !.waited =
                  [res |-> "timeout", all |-> NeededInPool(cur.hdr, pool, headersNonces),
                   quiet |-> \A d \in Disp : disp[d].pc = "idle", cycle |-> hist.cycles]]
    /\ pc' = "postWait"
    /\ UNCHANGED <<cur, err, tableVars, mutexVars, disp, poolVars, chainVars,
                   journalLen, requests>>

\* ProcessBlock after the wait: the counters are zeroed under the lock
postWait ==
    /\ pc = "postWait"
    /\ mutHdrsForBlock = "free"
    /\ mutProcessedMiniBlocks = "free"
    /\ missingHdrs' = 0
    /\ missingFinalHdrs' = 0
    /\ IF loc.waitErr # "nil" THEN Return(loc.waitErr)
       ELSE err' = err /\ pc' = "checkJournal"
    /\ UNCHANGED <<cur, loc, hdrHashAndInfo, currHighestMetaHdrNonce, mutexVars,
                   disp, poolVars, chainVars, journalLen, requests, hist>>

\* a check that takes every journal for clean
journalDirtyNever(j) == FALSE

\* sp.accounts.JournalLen() != 0
journalDirty(j) == j # 0

\* if sp.accounts.JournalLen() != 0
checkJournal ==
    /\ pc = "checkJournal"
    /\ IF journalDirty(journalLen) THEN Return("ErrAccountStateDirty")
       ELSE err' = err /\ pc' = "checkMetaHeadersValidityAndFinality"
    /\ UNCHANGED <<cur, loc, tableVars, mutexVars, disp, poolVars, chainVars,
                   journalLen, requests, hist>>

\* err = sp.checkMetaHeadersValidityAndFinality()
checkMetaHeaders ==
    /\ pc = "checkMetaHeadersValidityAndFinality"
    /\ mutHdrsForBlock = "free"
    /\ mutProcessedMiniBlocks = "free"
    /\ \E u \in SortedSeqs(UsedHdrs(hdrHashAndInfo)),
          f \in SortedSeqs(NotUsedHdrs(hdrHashAndInfo)) :
          LET r == checkMetaHeadersValidityAndFinality(hdrHashAndInfo, notarizedHdrs, u, f)
          IN /\ requests' = requests \o ByNonce(r.req)
             /\ hist' = [hist EXCEPT !.validated = (r.err = "nil")]
             /\ IF r.err # "nil" THEN Return(r.err)
                ELSE err' = err /\ pc' = "verifyCrossShardMiniBlockDstMe"
    /\ UNCHANGED <<cur, loc, tableVars, mutexVars, disp, poolVars, chainVars,
                   journalLen>>

\* err = sp.verifyCrossShardMiniBlockDstMe(header)
verifyCross ==
    /\ pc = "verifyCrossShardMiniBlockDstMe"
    /\ mutHdrsForBlock = "free"
    /\ mutProcessedMiniBlocks = "free"
    /\ LET e == verifyCrossShardMiniBlockDstMe(hdrHashAndInfo, notarizedHdrs, cur.hdr)
       IN IF e # "nil" THEN Return(e)
          ELSE err' = err /\ pc' = "processBlockTransactions"
    /\ UNCHANGED <<cur, loc, tableVars, mutexVars, disp, poolVars, chainVars,
                   journalLen, requests, hist>>

\* baseProcessor.RevertAccountState: the journal is reverted to snapshot 0
RevertAccountState(j) == 0

\* a guard that reverts on the root-hash mismatch only
deferredRevertRootOnly(e) == e = "ErrRootStateDoesNotMatch"

\* a guard that lets the root-hash mismatch through
deferredRevertButRoot(e) == e # "nil" /\ e # "ErrRootStateDoesNotMatch"

\* the deferred guard of ProcessBlock: revert when the call returns an error
deferredRevert(e) == e # "nil"

\* what the tail of ProcessBlock can return: the errors of the collaborators
\* it calls, the root-hash mismatch, or nil
TailOutcomes ==
    {"ErrWrongTypeAssertion", "ErrSetMetaConsensusData", "ErrProcessBlockTransaction",
     "ErrRootStateDoesNotMatch", "ErrVerifyCreatedBlockTransactions", "nil"}

\* ProcessBlock after the deferred guard is set: the processed metablocks, the
\* meta consensus data, ProcessBlockTransaction (which writes the journal), the
\* root hash and VerifyCreatedBlockTransactions, up to the return statement
processTail ==
    /\ pc = "processBlockTransactions"
    /\ \E e \in TailOutcomes, j \in {0, 1} :
          /\ journalLen' = IF e \in {"ErrWrongTypeAssertion", "ErrSetMetaConsensusData"}
                           THEN journalLen ELSE j
          /\ err' = e
    /\ hist' = [hist EXCEPT !.mutated = TRUE]
    /\ pc' = "deferred"
    /\ UNCHANGED <<cur, loc, tableVars, mutexVars, disp, poolVars, chainVars,
                   requests>>

\* the deferred function of ProcessBlock runs as the call returns
processDeferred ==
    /\ pc = "deferred"
    /\ loc.kind = "process"
    /\ IF deferredRevert(err)
       THEN /\ journalLen' = RevertAccountState(journalLen)
            /\ hist' = [hist EXCEPT !.reverted = TRUE]
       ELSE UNCHANGED <<journalLen, hist>>
    /\ loc' = [loc EXCEPT !.done = IF err = "nil" THEN "processed" ELSE "none"]
    /\ pc' = "returned"
    /\ UNCHANGED <<cur, err, tableVars, mutexVars, disp, poolVars,
                   chainVars, requests>>

\* the call has returned; the driver is free for the next call
Returned ==
    /\ pc = "returned"
    /\ pc' = "idle"
    /\ UNCHANGED <<cur, err, loc, tableVars, mutexVars, disp, poolVars,
                   chainVars, journalLen, requests, hist>>

\* the consensus layer drops the block it was working on
DropBlock ==
    /\ pc = "idle"
    /\ journalLen # 0
    /\ journalLen' = RevertAccountState(journalLen)
    /\ loc' = [loc EXCEPT !.done = "none"]
    /\ UNCHANGED <<pc, cur, err, tableVars, mutexVars, disp, poolVars,
                   chainVars, requests, hist>>

Next ==
    \/ \E h \in ArrivableHashes, d \in Disp : Arrive(h, d)
    \/ \E d \in Disp : receivedMetaBlock(d)
    \/ \E d \in Disp : SendSignal(d)
    \/ \E b \in IncomingBlocks(blockchain) : ProcessBlock(b)
    \/ CreateBlockStarted
    \/ requestMetaHeaders
    \/ computeMissingAndExistingMetaHeaders
    \/ insertMissing
    \/ haveTimeCheck
    \/ IsDataPreparedForProcessing
    \/ \E d \in Disp : waitReceive(d)
    \/ waitTimeout
    \/ postWait
    \/ checkJournal
    \/ checkMetaHeaders
    \/ verifyCross
    \/ processTail
    \/ processDeferred
    \/ Returned
    \/ DropBlock

Spec == Init /\ [][Next]_vars

\* a call of ProcessBlock in progress runs on to its return: the wait ends by
\* the receive or by the timer
DriverStep ==
    \/ CreateBlockStarted
    \/ requestMetaHeaders
    \/ computeMissingAndExistingMetaHeaders
    \/ insertMissing
    \/ haveTimeCheck
    \/ IsDataPreparedForProcessing
    \/ \E d \in Disp : waitReceive(d)
    \/ waitTimeout
    \/ postWait
    \/ checkJournal
    \/ checkMetaHeaders
    \/ verifyCross
    \/ processTail
    \/ processDeferred
    \/ Returned

\* the Go scheduler runs every started goroutine that can take a step, and the
\* driver thread while it is inside a call. Whether ProcessBlock is called
\* again, and whether a metablock arrives, is up to the environment.
Fairness ==
    /\ \A d \in Disp : WF_vars(receivedMetaBlock(d))
    /\ \A d \in Disp : WF_vars(SendSignal(d))
    /\ WF_vars(DriverStep)

SpecLive == Init /\ [][Next]_vars /\ Fairness


\* ------------------------------------------------------------------------
\* The processed-miniblocks ledger
\* ------------------------------------------------------------------------
addProcessedMiniBlock(ledger, metaBlockHash, miniBlockHash) ==
    MapPut(ledger, metaBlockHash,
           (IF metaBlockHash \in DOMAIN ledger THEN ledger[metaBlockHash] ELSE {})
               \cup {miniBlockHash})

\* a removal that stops at the first metablock holding the miniblock
removeProcessedMiniBlockFirst(ledger, miniBlockHash) ==
    LET holders == {k \in DOMAIN ledger : miniBlockHash \in ledger[k]}
    IN  IF holders = {} THEN ledger
        ELSE LET f == CHOOSE k \in holders : \A x \in holders : k <= x
             IN  [ledger EXCEPT ![f] = @ \ {miniBlockHash}]

removeProcessedMiniBlock(ledger, miniBlockHash) ==
    [k \in DOMAIN ledger |-> ledger[k] \ {miniBlockHash}]

\* a removal that leaves the entry of the metablock in the ledger
removeAllProcessedMiniBlocksKept(ledger, metaBlockHash) == ledger

removeAllProcessedMiniBlocks(ledger, metaBlockHash) == MapDel(ledger, metaBlockHash)

getProcessedMiniBlocksHashes(ledger, metaBlockHash) ==
    IF metaBlockHash \in DOMAIN ledger THEN ledger[metaBlockHash] ELSE {}

isMiniBlockProcessed(ledger, metaBlockHash, miniBlockHash) ==
    /\ metaBlockHash \in DOMAIN ledger
    /\ miniBlockHash \in ledger[metaBlockHash]

\* every order a range over a Go map may take
RECURSIVE Perms(_)
Perms(S) ==
    IF S = {} THEN {<<>>}
    ELSE UNION {{<<x>> \o t : t \in Perms(S \ {x})} : x \in S}

\* a test that takes every used metablock for fully processed
processedAllAlways(crossMiniBlockHashes, crossTrue) == TRUE

\* processedAll: every self-destined miniblock of the metablock is processed
processedAll(crossMiniBlockHashes, crossTrue) == crossMiniBlockHashes \subseteq crossTrue

\* the loop of getProcessedMetaBlocksFromMiniBlockHashes over the used entries
\* of the table, in the order the map is ranged over. acc.rest are the hashes
\* still in miniBlockHashes, acc.crossTrue the keys of
\* processedCrossMiniBlocksHashes that hold true, acc.metas the metablocks found
\* fully processed
RECURSIVE processedLoop(_, _, _, _, _)
processedLoop(tbl, ledger, order, i, acc) ==
    IF i > Len(order) THEN acc
    ELSE LET h == order[i]
             crossMiniBlockHashes == GetMiniBlockHeadersWithDst(tbl[h].hdr)
             fromLedger == {x \in crossMiniBlockHashes : isMiniBlockProcessed(ledger, h, x)}
             crossTrue == ((acc.crossTrue \ crossMiniBlockHashes) \cup fromLedger)
                             \cup (crossMiniBlockHashes \cap acc.rest)
         IN processedLoop(tbl, ledger, order, i + 1,
                [rest |-> acc.rest \ crossMiniBlockHashes,
                 crossTrue |-> crossTrue,
                 metas |-> IF processedAll(crossMiniBlockHashes, crossTrue)
                           THEN acc.metas \cup {tbl[h].hdr} ELSE acc.metas])

getProcessedMetaBlocksFromMiniBlockHashes(tbl, ledger, miniBlockHashes, order) ==
    IF sortHdrsFails(tbl, TRUE)
    THEN [err |-> "ErrWrongTypeAssertion", metas |-> {}, crossTrue |-> {}]
    ELSE LET r == processedLoop(tbl, ledger, order, 1,
                      [rest |-> miniBlockHashes, crossTrue |-> {}, metas |-> {}])
         IN [err |-> "nil", metas |-> r.metas, crossTrue |-> r.crossTrue]

\* the second loop of getProcessedMetaBlocksFromHeader: the processed miniblocks
\* of every used metablock go into the ledger
RECURSIVE addProcessedLoop(_, _, _, _, _)
addProcessedLoop(tbl, ledger, order, i, crossTrue) ==
    IF i > Len(order) THEN ledger
    ELSE LET h == order[i]
             hit == GetMiniBlockHeadersWithDst(tbl[h].hdr) \cap crossTrue
             ledger1 == IF hit = {} THEN ledger
                        ELSE MapPut(ledger, h, getProcessedMiniBlocksHashes(ledger, h) \cup hit)
         IN addProcessedLoop(tbl, ledger1, order, i + 1, crossTrue)

\* getProcessedMetaBlocksFromHeader: the error, the metablocks fully processed
\* and the ledger it leaves
getProcessedMetaBlocksFromHeader(tbl, ledger, header, order) ==
    LET miniBlockHashes == {header.MiniBlockHeaders[i].Hash : i \in DOMAIN header.MiniBlockHeaders}
        r == getProcessedMetaBlocksFromMiniBlockHashes(tbl, ledger, miniBlockHashes, order)
    IN IF r.err # "nil" THEN [err |-> r.err, metas |-> {}, ledger |-> ledger]
       ELSE [err |-> "nil", metas |-> r.metas,
             ledger |-> addProcessedLoop(tbl, ledger, order, 1, r.crossTrue)]

\* getProcessedMetaBlocksFromMiniBlocks: nothing when no miniblock or no table
\* entry is there, else the metablocks found fully processed by the hashes of
\* the miniblocks other shards sent
getProcessedMetaBlocksFromMiniBlocks(tbl, ledger, usedMiniBlocks, order) ==
    IF Len(usedMiniBlocks) = 0 \/ Cardinality(DOMAIN tbl) = 0
    THEN [err |-> "nil", metas |-> {}]
    ELSE LET miniBlockHashes ==
                 {MiniBlockHash(usedMiniBlocks[i]) :
                     i \in {j \in DOMAIN usedMiniBlocks :
                               usedMiniBlocks[j].SenderShardID # SelfId}}
             r == getProcessedMetaBlocksFromMiniBlockHashes(tbl, ledger, miniBlockHashes,
                                                            order)
         IN [err |-> r.err, metas |-> r.metas]

\* ------------------------------------------------------------------------
\* The notarized slice of the metachain (baseProcessor)
\* ------------------------------------------------------------------------
\* baseProcessor.saveLastNotarizedHeader: the processed headers are appended
saveLastNotarizedHeader(slice, processedHdrs) == slice \o processedHdrs

\* baseProcessor.removeLastNotarized: the last entry is dropped
removeLastNotarized(slice) ==
    IF Len(slice) > 1 THEN SubSeq(slice, 1, Len(slice) - 1) ELSE slice

\* baseProcessor.removeNotarizedHdrsBehindPreviousFinal: the slice keeps its
\* last entry and the hdrsToAttestPreviousFinal entries behind it
removeNotarizedHdrsBehindPreviousFinal(slice, hdrsToAttestPreviousFinal) ==
    IF Len(slice) > hdrsToAttestPreviousFinal
    THEN SubSeq(slice, Len(slice) - hdrsToAttestPreviousFinal, Len(slice))
    ELSE slice

\* ------------------------------------------------------------------------
\* Storage units
\* ------------------------------------------------------------------------
\* marshalizer.Marshal and Unmarshal of a metablock: the fields in order
MarshalMeta(m) ==
    <<m.Nonce, m.Round, m.PrevHash, m.PrevRandSeed, m.RandSeed, m.Salt, m.MiniBlocksDstMe>>

UnmarshalMeta(buff) ==
    MkMeta(buff[1], buff[2], buff[3], buff[4], buff[5], buff[6], buff[7])

StorePut(st, unit, key, val) == MapPut(st, <<unit, key>>, val)
StoreHas(st, unit, key) == <<unit, key>> \in DOMAIN st
StoreRemove(st, unit, key) == MapDel(st, <<unit, key>>)

RECURSIVE storeMiniBlocks(_, _, _)
storeMiniBlocks(st, body, i) ==
    IF i > Len(body) THEN st
    ELSE storeMiniBlocks(StorePut(st, "MiniBlockUnit", MiniBlockHash(body[i]), body[i]),
                         body, i + 1)

\* removeProcessedMetaBlocksFromPool: every processed metablock not above the
\* last notarized one moves from the pool to the storage, and leaves the ledger
RECURSIVE removeProcessedMetaBlocksFromPool(_, _, _, _)
removeProcessedMetaBlocksFromPool(st, processedMetaHdrs, i, lastNotarizedMetaHdr) ==
    IF i > Len(processedMetaHdrs) THEN st
    ELSE LET hdr == processedMetaHdrs[i]
             headerHash == MetaHash(hdr)
         IN IF hdr.Nonce > lastNotarizedMetaHdr.Nonce
            THEN removeProcessedMetaBlocksFromPool(st, processedMetaHdrs, i + 1,
                                                   lastNotarizedMetaHdr)
            ELSE removeProcessedMetaBlocksFromPool(
                   [store |-> StorePut(StorePut(st.store, "MetaHdrNonceHashDataUnit",
                                                hdr.Nonce, headerHash),
                                       "MetaBlockUnit", headerHash, MarshalMeta(hdr)),
                    pool |-> st.pool \ {headerHash},
                    headersNonces |-> MapDel(st.headersNonces, <<hdr.Nonce, MetachainShardId>>),
                    ledger |-> removeAllProcessedMiniBlocks(st.ledger, headerHash)],
                   processedMetaHdrs, i + 1, lastNotarizedMetaHdr)

\* ------------------------------------------------------------------------
\* CommitBlock
\* ------------------------------------------------------------------------
Snapshot(pl, hn, ledger, slice) ==
    [pool |-> pl, headersNonces |-> hn, ledger |-> ledger, notarized |-> slice]

\* the steps of CommitBlock that act on the processor, its collaborators or
\* the chain, in the order of the code
CommitSteps ==
    <<"checkBlockValidity", "store.Put header", "SaveBlockDataToStorage",
      "store.Put miniblocks", "getProcessedMetaBlocksFromHeader",
      "getHighestHdrForOwnShardFromMetachain", "saveLastNotarizedHeader",
      "accounts.Commit", "RemoveBlockDataFromPool", "removeProcessedMetaBlocksFromPool",
      "forkDetector.AddHeader", "removeNotarizedHdrsBehindPreviousFinal",
      "SetCurrentBlockBody", "SetCurrentBlockHeader">>

\* a guard that takes the account state for final once accounts.Commit was called
commitDeferredRevertUntilCommit(e) ==
    e # "nil" /\ e \notin {"ErrSetCurrentBlockBody", "ErrSetCurrentBlockHeader"}

\* the deferred function of CommitBlock: if err != nil
commitDeferredRevert(e) == e # "nil"

\* CommitBlock returns the error e of the step named last, with the processor
\* and the chain as the steps before it left them (st); the deferred function
\* runs as the call returns
commitFails(e, last, st) ==
    /\ Return(e)
    /\ store' = st.store
    /\ headersNonces' = st.headersNonces
    /\ pool' = st.pool
    /\ processedMiniBlocks' = st.ledger
    /\ notarizedHdrs' = st.notarized
    /\ blockchain' = st.chain
    /\ journalLen' = IF commitDeferredRevert(e) THEN RevertAccountState(journalLen)
                     ELSE journalLen
    /\ LET done == SubSeq(CommitSteps, 1,
                           CHOOSE i \in DOMAIN CommitSteps : CommitSteps[i] = last)
       IN loc' = [NoLoc EXCEPT !.kind = "commit",
                               !.steps = IF commitDeferredRevert(e)
                                         THEN Append(done, "RevertAccountState")
                                         ELSE done]
    /\ hist' = [hist EXCEPT !.last = "none"]
    /\ UNCHANGED <<cur, tableVars, mutexVars, disp, requests>>

\* CommitBlock of the block the last cycle processed or built. The fork
\* detector's highest final nonce is an input, as is the step of a collaborator
\* that answers with an error (fail), and whether the store takes the Puts of
\* this call or answers each with an error (which is logged and the commit
\* goes on).
CommitBlock ==
    /\ pc = "idle"
    /\ loc.done \in {"processed", "built"}
    /\ \E fail \in {"none", "SaveBlockDataToStorage", "getHighestHdrForOwnShardFromMetachain",
                    "accounts.Commit", "SetCurrentBlockBody", "SetCurrentBlockHeader"},
          putErr \in BOOLEAN,
          order \in Perms(UsedHashes(hdrHashAndInfo)),
          highestFinalBlockNonce \in 0 .. cur.hdr.Nonce :
          LET header == cur.hdr
              body == cur.body
              e1 == checkBlockValidity(blockchain, header)
              headerHash == HeaderHash(header)
              store1 == IF putErr THEN store
                        ELSE StorePut(StorePut(store, "ShardHdrNonceHashDataUnit",
                                               header.Nonce, headerHash),
                                      "BlockHeaderUnit", headerHash, header)
              hn1 == MapPut(headersNonces, <<header.Nonce, SelfId>>, headerHash)
              store2 == IF putErr THEN store1 ELSE storeMiniBlocks(store1, body, 1)
              p == getProcessedMetaBlocksFromHeader(hdrHashAndInfo, processedMiniBlocks,
                                                    header, order)
              s0 == [store |-> store, headersNonces |-> headersNonces, pool |-> pool,
                     ledger |-> processedMiniBlocks, notarized |-> notarizedHdrs,
                     chain |-> blockchain]
              s1 == [s0 EXCEPT !.store = store1, !.headersNonces = hn1]
              s2 == [s1 EXCEPT !.store = store2]
          IN IF e1 # "nil" THEN commitFails(e1, "checkBlockValidity", s0)
             ELSE IF fail = "SaveBlockDataToStorage"
                  THEN commitFails("ErrSaveBlockData", fail, s1)
             ELSE IF p.err # "nil"
                  THEN commitFails(p.err, "getProcessedMetaBlocksFromHeader", s2)
             ELSE \E processedMetaHdrs \in SortedSeqs(p.metas) :
                    LET slice1 == saveLastNotarizedHeader(notarizedHdrs, processedMetaHdrs)
                        before == [store |-> store2, pool |-> pool, headersNonces |-> hn1,
                                   ledger |-> p.ledger]
                        r == IF putErr THEN before
                             ELSE removeProcessedMetaBlocksFromPool(
                                      before, processedMetaHdrs, 1,
                                      getLastNotarizedHdr(slice1))
                        hdrsToAttestPreviousFinal == header.Nonce - highestFinalBlockNonce + 1
                        slice2 == removeNotarizedHdrsBehindPreviousFinal(
                                      slice1, hdrsToAttestPreviousFinal)
                        s5 == [s2 EXCEPT !.ledger = p.ledger]
                        s7 == [s5 EXCEPT !.notarized = slice1]
                        s12 == [store |-> r.store, headersNonces |-> r.headersNonces,
                                pool |-> r.pool, ledger |-> r.ledger, notarized |-> slice2,
                                chain |-> blockchain]
                    IN IF fail = "getHighestHdrForOwnShardFromMetachain"
                       THEN commitFails("ErrMissingHeader", fail, s5)
                       ELSE IF fail = "accounts.Commit"
                       THEN commitFails("ErrAccountsCommit", fail, s7)
                       ELSE IF fail = "SetCurrentBlockBody"
                       THEN commitFails("ErrSetCurrentBlockBody", fail, s12)
                       ELSE IF fail = "SetCurrentBlockHeader"
                       THEN commitFails("ErrSetCurrentBlockHeader", fail,
                                [s12 EXCEPT !.chain = [hdr |-> blockchain.hdr,
                                                       body |-> body]])
                       ELSE
                       /\ store' = r.store
                       /\ pool' = r.pool
                       /\ headersNonces' = r.headersNonces
                       /\ processedMiniBlocks' = r.ledger
                       /\ notarizedHdrs' = slice2
                       /\ journalLen' = 0
                       /\ blockchain' = cur
                       /\ Return("nil")
                       /\ loc' = [NoLoc EXCEPT !.kind = "commit", !.steps = CommitSteps]
                       /\ hist' = [hist EXCEPT
                                     !.last = "commit",
                                     !.putErr = putErr,
                                     !.pre = Snapshot(pool, headersNonces, processedMiniBlocks,
                                                      notarizedHdrs),
                                     !.commits = @ + 1,
                                     !.processed = Len(processedMetaHdrs)]
                       /\ UNCHANGED <<cur, tableVars, mutexVars, disp, requests>>

\* ------------------------------------------------------------------------
\* RestoreBlockIntoPools
\* ------------------------------------------------------------------------
\* the first loop of restoreMetaBlockIntoPool, over header.MetaBlockHashes
RECURSIVE restoreMetaLoop(_, _, _)
restoreMetaLoop(st, metaBlockHashes, i) ==
    IF i > Len(metaBlockHashes) THEN st
    ELSE LET metaBlockHash == metaBlockHashes[i]
         IN IF ~StoreHas(st.store, "MetaBlockUnit", metaBlockHash)
            THEN restoreMetaLoop(st, metaBlockHashes, i + 1)
            ELSE LET metaBlock == UnmarshalMeta(st.store[<<"MetaBlockUnit", metaBlockHash>>])
                     processed == GetMiniBlockHeadersWithDst(metaBlock)
                     ledger1 == IF processed = {} THEN st.ledger
                                ELSE MapPut(st.ledger, metaBlockHash,
                                       getProcessedMiniBlocksHashes(st.ledger, metaBlockHash)
                                           \cup processed)
                 IN restoreMetaLoop(
                      [store |-> StoreRemove(StoreRemove(st.store, "MetaBlockUnit", metaBlockHash),
                                             "MetaHdrNonceHashDataUnit", metaBlock.Nonce),
                       pool |-> st.pool \cup {metaBlockHash},
                       headersNonces |-> MapPut(st.headersNonces,
                                                <<metaBlock.Nonce, MetachainShardId>>,
                                                metaBlockHash),
                       ledger |-> ledger1],
                      metaBlockHashes, i + 1)

\* a second loop that strips nothing
removeProcessedLoopNone(ledger, miniBlockHashes) == ledger

\* the second loop of restoreMetaBlockIntoPool, over the header's miniblock hashes
RECURSIVE removeProcessedLoop(_, _)
removeProcessedLoop(ledger, miniBlockHashes) ==
    IF miniBlockHashes = {} THEN ledger
    ELSE LET x == CHOOSE y \in miniBlockHashes : TRUE
         IN removeProcessedLoop(removeProcessedMiniBlock(ledger, x), miniBlockHashes \ {x})

restoreMetaBlockIntoPool(st, miniBlockHashes, metaBlockHashes) ==
    LET r == restoreMetaLoop(st, metaBlockHashes, 1)
    IN [r EXCEPT !.ledger = removeProcessedLoop(r.ledger, miniBlockHashes)]

\* the block under the current one, read back from the storage by the caller
PrevBlock(st, header) ==
    IF StoreHas(st, "BlockHeaderUnit", header.PrevHash)
    THEN LET h == st[<<"BlockHeaderUnit", header.PrevHash>>]
         IN [hdr |-> h,
             body |-> [i \in DOMAIN h.MiniBlockHeaders |->
                          st[<<"MiniBlockUnit", h.MiniBlockHeaders[i].Hash>>]]]
    ELSE NoBlock

\* RestoreBlockIntoPools of the current block; the caller then moves the chain
\* back to the block under it. The caller may hand over a nil header, a nil
\* body, or one of another concrete type (eArg).
RestoreBlockIntoPools ==
    /\ pc = "idle"
    /\ blockchain.hdr.Nonce > 0
    /\ notarizedHdrs' = removeLastNotarized(notarizedHdrs)
    /\ \E eArg \in {"nil", "ErrNilBlockHeader", "ErrNilTxBlockBody", "ErrWrongTypeAssertion"},
          eRestore \in {"nil", "ErrRestoreBlockData"} :
          LET header == blockchain.hdr
              miniBlockHashes == {header.MiniBlockHeaders[i].Hash :
                                     i \in DOMAIN header.MiniBlockHeaders}
              r == restoreMetaBlockIntoPool(
                       [store |-> store, pool |-> pool, headersNonces |-> headersNonces,
                        ledger |-> processedMiniBlocks],
                       miniBlockHashes, header.MetaBlockHashes)
          IN IF eArg # "nil" \/ eRestore # "nil"
             THEN /\ Return(IF eArg # "nil" THEN eArg ELSE eRestore)
                  /\ hist' = [hist EXCEPT !.last = "none"]
                  /\ UNCHANGED <<store, pool, headersNonces, processedMiniBlocks, blockchain>>
             ELSE /\ Return("nil")
                  /\ store' = r.store
                  /\ pool' = r.pool
                  /\ headersNonces' = r.headersNonces
                  /\ processedMiniBlocks' = r.ledger
                  /\ blockchain' = PrevBlock(store, header)
                  /\ hist' = [hist EXCEPT !.last = IF @ = "commit" THEN "restore" ELSE "none"]
    /\ loc' = [NoLoc EXCEPT !.kind = "restore"]
    /\ UNCHANGED <<cur, tableVars, mutexVars, disp, journalLen, requests>>

\* ------------------------------------------------------------------------
\* CreateBlockBody: the selector and the assembler
\* ------------------------------------------------------------------------
AllMiniBlocks == {mb1, mb2, mb3, mbOwn}
MbOf(hash) == CHOOSE mb \in AllMiniBlocks : MiniBlockHash(mb) = hash

RECURSIVE SortHashes(_)
SortHashes(S) ==
    IF S = {} THEN <<>>
    ELSE LET x == CHOOSE y \in S : \A z \in S : y <= z
         IN <<x>> \o SortHashes(S \ {x})

\* txCoordinator.CreateMbsAndProcessCrossShardTransactionsDstMe: what the
\* coordinator may answer. It takes the miniblocks of the metablock not yet
\* processed, in order, as far as the two budgets and the time allow, and
\* reports the metablock finished only if it took them all.
CoordAnswers(hdr, processedMiniBlocksHashes, maxTxSpaceRemained, maxMbSpaceRemained) ==
    LET todo == SortHashes(GetMiniBlockHeadersWithDst(hdr) \ processedMiniBlocksHashes)
        taken(k) == [i \in 1 .. k |-> MbOf(todo[i])]
    IN {a \in {[mbs |-> taken(k), txs |-> TxsIn(taken(k)), finished |-> f] :
                    k \in {j \in 0 .. Len(todo) : /\ j <= maxMbSpaceRemained
                                                   /\ TxsIn(taken(j)) <= maxTxSpaceRemained},
                    f \in BOOLEAN} :
          a.finished => Len(a.mbs) = Len(todo)}

Min(a, b) == IF a < b THEN a ELSE b

\* a budget that looks at the room left in the miniblock count only
getMaxMiniBlocksSpaceRemainedInCache(maxItemsInBlock, itemsAddedInBlock, miniBlocksAddedInBlock) ==
    MaxMiniBlocksInBlock - miniBlocksAddedInBlock

\* getMaxMiniBlocksSpaceRemained: the smaller of the room left in the item
\* budget and the room left in the miniblock count
getMaxMiniBlocksSpaceRemained(maxItemsInBlock, itemsAddedInBlock, miniBlocksAddedInBlock) ==
    Min(maxItemsInBlock - itemsAddedInBlock, MaxMiniBlocksInBlock - miniBlocksAddedInBlock)

\* getOrderedMetaBlocks before the sort: the metablocks of the pool in the
\* round, above the last notarized one
getOrderedMetaBlocks(pl, slice, round) ==
    LET lastHdr == getLastNotarizedHdr(slice)
    IN {MetaOf(h) : h \in {k \in pl : /\ MetaOf(k).Round <= round
                                      /\ MetaOf(k).Round > lastHdr.Round
                                      /\ MetaOf(k).Nonce > lastHdr.Nonce}}

\* a metablock without miniblocks for this shard that is passed over
addEmptyMetaBlockSkipped(st, hash, hdr) == st

\* the selector's step for a valid and final metablock without miniblocks for
\* this shard: marked used in the table, counted, and the new lastMetaHdr
addEmptyMetaBlock(st, hash, hdr) ==
    [st EXCEPT !.tbl = MapPut(@, hash, HdrInfo(hdr, TRUE)),
               !.hdrsAdded = @ + 1,
               !.lastMetaHdr = hdr]

\* the loop of createAndProcessCrossMiniBlocksDstMe from position i on: every
\* state it can end in, over the answers of haveTime and of the coordinator.
\* st.timeUp tells that haveTime ended the loop, st.stop names the break or
\* return that ended it ("none" when it ran through), st.seen tells for every
\* candidate that got past the three breaks what lastMetaHdr was and what
\* became of the candidate, st.calls are the calls of the
\* coordinator: the metablock, the two budgets, what was in the block before
\* the call, and the answer.
RECURSIVE selectLoop(_, _, _, _, _)
selectLoop(orderedMetaBlocks, i, st, maxItemsInBlock, ledger) ==
    IF i > Len(orderedMetaBlocks) THEN {st}
    ELSE {[st EXCEPT !.timeUp = TRUE, !.stop = "haveTime"]} \cup
      (IF Len(st.miniBlocks) >= MaxMiniBlocksInBlock
       THEN {[st EXCEPT !.stop = "MaxMiniBlocksInBlock"]}
       ELSE LET itemsAddedInHeader == Cardinality(DOMAIN st.tbl) + Len(st.miniBlocks)
                hdr == orderedMetaBlocks[i]
                hash == MetaHash(hdr)
                saw(what) == Append(st.seen, [hash |-> hash, lastBefore |-> st.lastMetaHdr,
                                              what |-> what])
                skip(what) == selectLoop(orderedMetaBlocks, i + 1,
                                         [st EXCEPT !.seen = saw(what)],
                                         maxItemsInBlock, ledger)
                maxTxSpaceRemained == maxItemsInBlock - st.txsAdded
                maxMbSpaceRemained == getMaxMiniBlocksSpaceRemained(
                                          maxItemsInBlock, itemsAddedInHeader + 1,
                                          Len(st.miniBlocks))
                after(a) == [tbl |-> IF a.txs > 0
                                     THEN MapPut(st.tbl, hash, HdrInfo(hdr, TRUE))
                                     ELSE st.tbl,
                             miniBlocks |-> st.miniBlocks \o a.mbs,
                             txsAdded |-> st.txsAdded + a.txs,
                             hdrsAdded |-> IF a.txs > 0 THEN st.hdrsAdded + 1 ELSE st.hdrsAdded,
                             lastMetaHdr |-> IF a.finished THEN hdr ELSE st.lastMetaHdr,
                             timeUp |-> st.timeUp,
                             seen |-> saw("called"),
                             stop |-> IF a.finished THEN st.stop ELSE "hdrProcessFinished",
                             calls |-> Append(st.calls,
                                 [hash |-> hash, maxTxSpaceRemained |-> maxTxSpaceRemained,
                                  maxMbSpaceRemained |-> maxMbSpaceRemained,
                                  txsBefore |-> st.txsAdded,
                                  itemsBefore |-> itemsAddedInHeader,
                                  tableBefore |-> Cardinality(DOMAIN st.tbl),
                                  miniBlocksBefore |-> Len(st.miniBlocks),
                                  lastBefore |-> st.lastMetaHdr,
                                  txs |-> a.txs, finished |-> a.finished])]
            IN IF itemsAddedInHeader >= maxItemsInBlock
               THEN {[st EXCEPT !.stop = "maxItemsInBlock"]}
               ELSE IF isHdrConstructionValid(hdr, st.lastMetaHdr) # "nil"
                    THEN skip("notValid")
               ELSE IF ~isMetaHeaderFinal(hdr, orderedMetaBlocks, i + 1)
                    THEN skip("notFinal")
               ELSE IF GetMiniBlockHeadersWithDst(hdr) = {}
                    THEN selectLoop(orderedMetaBlocks, i + 1,
                             [addEmptyMetaBlock(st, hash, hdr)
                                  EXCEPT !.seen = saw("noMiniBlocks")],
                             maxItemsInBlock, ledger)
               ELSE IF st.txsAdded >= maxItemsInBlock THEN skip("noSpace")
               ELSE IF maxTxSpaceRemained > 0 /\ maxMbSpaceRemained > 0
                    THEN UNION {IF a.finished
                                THEN selectLoop(orderedMetaBlocks, i + 1, after(a),
                                                maxItemsInBlock, ledger)
                                ELSE {after(a)} :
                                a \in CoordAnswers(hdr, getProcessedMiniBlocksHashes(ledger, hash),
                                                   maxTxSpaceRemained, maxMbSpaceRemained)}
                    ELSE skip("noSpace"))

createAndProcessCrossMiniBlocksDstMe(tbl, slice, ledger, orderedMetaBlocks, maxItemsInBlock) ==
    selectLoop(orderedMetaBlocks, 1,
               [tbl |-> tbl, miniBlocks |-> <<>>, txsAdded |-> 0, hdrsAdded |-> 0,
                lastMetaHdr |-> getLastNotarizedHdr(slice), timeUp |-> FALSE,
                stop |-> "none", seen |-> <<>>,
                calls |-> <<>>],
               maxItemsInBlock, ledger)

MaxItemsToAdd == 8

\* CreateBlockBody up to its call of CreateBlockStarted; the round and the
\* throttler's MaxItemsToAdd are inputs
CreateBlockBody(round, maxItems) ==
    /\ pc = "idle"
    /\ hist.cycles < MaxCycles
    /\ cur' = NoBlock
    /\ err' = "nil"
    /\ loc' = [NoLoc EXCEPT !.kind = "build", !.round = round, !.maxItems = maxItems]
    /\ hist' = [hist EXCEPT !.mutated = FALSE, !.reverted = FALSE, !.waited = NoWait,
                             !.validated = FALSE, !.last = "none"]
    /\ pc' = "CreateBlockStarted"
    /\ UNCHANGED <<tableVars, mutexVars, disp, poolVars, chainVars, journalLen,
                   requests>>

\* createMiniBlocks: the selector under the table's lock, the consensus data
\* of the processed metablocks, and the miniblocks of the shard's own
\* transactions
createMiniBlocks ==
    /\ pc = "createMiniBlocks"
    /\ mutHdrsForBlock = "free"
    /\ mutProcessedMiniBlocks = "free"
    /\ IF journalDirty(journalLen)
       THEN /\ Return("ErrAccountStateDirty")
            /\ UNCHANGED <<cur, loc, hdrHashAndInfo, journalLen>>
       ELSE \E haveTime \in BOOLEAN :
            IF ~haveTime
            THEN /\ Return("ErrTimeIsOut")
                 /\ loc' = [loc EXCEPT !.haveTime = FALSE]
                 /\ UNCHANGED <<cur, hdrHashAndInfo, journalLen>>
            ELSE \E orderedMetaBlocks \in SortedSeqs(
                        getOrderedMetaBlocks(pool, notarizedHdrs, loc.round)),
                    eSet \in {"nil", "ErrSetMetaConsensusData"},
                    mbFromMe \in {<<>>, <<mbOwn>>} :
                 \E o \in createAndProcessCrossMiniBlocksDstMe(
                              hdrHashAndInfo, notarizedHdrs, processedMiniBlocks,
                              orderedMetaBlocks, loc.maxItems) :
                    LET maxTxSpaceRemained == loc.maxItems - o.txsAdded
                        maxMbSpaceRemained == getMaxMiniBlocksSpaceRemained(
                                                  loc.maxItems,
                                                  Len(o.miniBlocks) + o.hdrsAdded,
                                                  Len(o.miniBlocks))
                        room == maxTxSpaceRemained > 0 /\ maxMbSpaceRemained > 0
                        body == IF eSet = "nil" /\ room THEN o.miniBlocks \o mbFromMe
                                ELSE o.miniBlocks
                    IN /\ (~room \/ eSet # "nil") => mbFromMe = <<>>
                       /\ hdrHashAndInfo' = o.tbl
                       /\ journalLen' = IF Len(body) > 0 THEN 1 ELSE 0
                       /\ loc' = [loc EXCEPT !.orderedMetaBlocks = orderedMetaBlocks,
                                             !.done = IF eSet = "nil" THEN "body" ELSE "none",
                                             !.sel = [timeUp |-> o.timeUp, stop |-> o.stop,
                                                      miniBlocks |-> Len(o.miniBlocks),
                                                      seen |-> o.seen,
                                                      calls |-> o.calls,
                                                      txsAdded |-> o.txsAdded,
                                                      hdrsAdded |-> o.hdrsAdded,
                                                      lastMetaHdr |-> o.lastMetaHdr]]
                       /\ cur' = [hdr |-> GenesisHeader,
                                  body |-> IF eSet = "nil" THEN body ELSE <<>>]
                       /\ Return(eSet)
    /\ UNCHANGED <<missingHdrs, missingFinalHdrs, currHighestMetaHdrNonce, mutexVars,
                   disp, poolVars, chainVars, requests, hist>>

\* sortHdrsHashesForCurrentBlock(true): the hashes of the used entries in every
\* order the sort by nonce may leave them
sortHdrsHashesForCurrentBlock(tbl) ==
    {[i \in DOMAIN q |-> MetaHash(q[i])] : q \in SortedSeqs(UsedHdrs(tbl))}

\* CreateBlockHeader after a body was created; the consensus layer sets the
\* nonce, the round and the previous hash. The body handler is the body just
\* created, or nil (the header is returned as it was made, before the
\* miniblock headers and the metablock hashes are set), or of another type
\* (no header is returned)
CreateBlockHeader ==
    /\ pc = "idle"
    /\ loc.kind = "build"
    /\ loc.done = "body"
    /\ \E bodyHandler \in {"block.Body", "nil", "other"} :
          IF bodyHandler = "nil"
          THEN /\ cur' = [hdr |-> HeaderFor(blockchain, loc.round, <<>>, <<>>, 1),
                          body |-> <<>>]
               /\ loc' = [loc EXCEPT !.done = "nilBody"]
               /\ err' = "nil"
          ELSE IF bodyHandler = "other"
          THEN /\ cur' = NoBlock
               /\ loc' = [loc EXCEPT !.done = "none"]
               /\ err' = "ErrWrongTypeAssertion"
          ELSE /\ \E hashes \in sortHdrsHashesForCurrentBlock(hdrHashAndInfo) :
                     cur' = [hdr |-> HeaderFor(blockchain, loc.round, hashes, cur.body, 1),
                             body |-> cur.body]
               /\ loc' = [loc EXCEPT !.done = "built"]
               /\ err' = "nil"
    /\ UNCHANGED <<pc, tableVars, mutexVars, disp, poolVars, chainVars,
                   journalLen, requests, hist>>

\* ------------------------------------------------------------------------
\* The life of blocks with a silent network: process, commit, restore
\* ------------------------------------------------------------------------
InitPools == {{hA, hB, hC}, {hA, hB}, {hA}}

\* the nonce indexes a pool can come with: one hash of the pool per nonce
NonceIndexes(pl) ==
    {f \in [{<<MetaOf(h).Nonce, MetachainShardId>> : h \in pl} -> pl] :
        \A k \in DOMAIN f : MetaOf(f[k]).Nonce = k[1]}

ChainBlocks(chain) ==
    {[hdr |-> HeaderFor(chain, HdrRound, b.metas, b.body, 1), body |-> b.body] :
        b \in {[metas |-> <<>>, body |-> <<mbOwn>>],
               [metas |-> <<hA>>, body |-> <<mb1, mb2>>],
               [metas |-> <<hA>>, body |-> <<mb1>>],
               [metas |-> <<hA, hB>>, body |-> <<mb1, mb3>>],
               [metas |-> <<hA>>, body |-> <<mb1, mb3>>],
               [metas |-> <<hB>>, body |-> <<mb3>>]}}

\* the pools a chain of blocks starts from, each with a nonce index
InitChain(pools) ==
    /\ InitCommon
    /\ cur = NoBlock
    /\ pool \in pools
    /\ headersNonces \in NonceIndexes(pool)

BuildRounds == {3, HdrRound}

NextChain ==
    \/ \E b \in ChainBlocks(blockchain) : ProcessBlock(b)
    \/ \E round \in BuildRounds, maxItems \in {2, MaxItemsToAdd} :
          CreateBlockBody(round, maxItems)
    \/ createMiniBlocks
    \/ CreateBlockHeader
    \/ CreateBlockStarted
    \/ requestMetaHeaders
    \/ computeMissingAndExistingMetaHeaders
    \/ insertMissing
    \/ haveTimeCheck
    \/ IsDataPreparedForProcessing
    \/ waitTimeout
    \/ postWait
    \/ checkJournal
    \/ checkMetaHeaders
    \/ verifyCross
    \/ processTail
    \/ processDeferred
    \/ Returned
    \/ DropBlock
    \/ CommitBlock
    \/ RestoreBlockIntoPools

SpecChain == InitChain(InitPools) /\ [][NextChain]_vars

\* the same life of blocks from a pool holding two metablocks of nonce 3, of which
\* MetaX does not build on MetaA
SpecChainX ==
    InitChain({{hA, hB, hC, hX}}) /\ [][NextChain]_vars

\* the same life of blocks from a pool whose metablock C, which has no miniblock
\* for this shard, is followed by D
SpecChainD ==
    InitChain({{hA, hB, hC, hD}}) /\ [][NextChain]_vars

\* ------------------------------------------------------------------------
\* checkHeaderBodyCorrelation on its own, over headers and bodies
\* ------------------------------------------------------------------------
MaxCorrLen == 2

CorrMiniBlocks == {mb1, mb2, mbOwn}

\* the miniblock headers of the miniblocks, and two that differ from the
\* header of mb1 in one field
CorrMiniBlockHeaders ==
    {MkMiniBlockHeader(mb) : mb \in CorrMiniBlocks}
        \cup {[MkMiniBlockHeader(mb1) EXCEPT !.Type = "SmartContractResultBlock"],
              [MkMiniBlockHeader(mb1) EXCEPT !.TxCount = 2]}

SeqsUpTo(S, n) == UNION {[1 .. k -> S] : k \in 0 .. n}

CorrPairs ==
    {[hdr |-> MkHeader(1, HdrRound, HeaderHash(GenesisHeader), <<>>, mbhs, 1),
      body |-> body] :
        mbhs \in SeqsUpTo(CorrMiniBlockHeaders, MaxCorrLen),
        body \in SeqsUpTo(CorrMiniBlocks, MaxCorrLen)}

InitCorr ==
    /\ InitCommon
    /\ cur \in CorrPairs
    /\ pool = {}
    /\ headersNonces = EmptyMap

\* the call of checkHeaderBodyCorrelation in ProcessBlock
correlate ==
    /\ pc = "idle"
    /\ loc.kind = "none"
    /\ err' = checkHeaderBodyCorrelation(cur.hdr, cur.body)
    /\ loc' = [loc EXCEPT !.kind = "correlation"]
    /\ pc' = "returned"
    /\ UNCHANGED <<cur, tableVars, mutexVars, disp, poolVars, chainVars,
                   journalLen, requests, hist>>

\* CreateBlockHeader called with a body of any miniblocks, repeated ones
\* included; the header it returns takes the place of the one at hand
createHeaderOfBody ==
    /\ pc = "idle"
    /\ loc.kind = "none"
    /\ loc.done = "none"
    /\ \E hashes \in sortHdrsHashesForCurrentBlock(hdrHashAndInfo) :
          cur' = [hdr |-> HeaderFor(blockchain, HdrRound, hashes, cur.body, 1),
                  body |-> cur.body]
    /\ loc' = [loc EXCEPT !.done = "built"]
    /\ UNCHANGED <<pc, err, tableVars, mutexVars, disp, poolVars, chainVars,
                   journalLen, requests, hist>>

\* the fully processed metablocks of a header and body that passed the
\* correlation check, as ProcessBlock and createMiniBlocks compute them from
\* the body and as CommitBlock computes them from the header. The table is one
\* a cycle leaves behind (the used metablocks chained on the notarized ones and
\* the final one after them); the table, the ledger and the orders in which
\* the table is ranged over are inputs
processedMetaBlocks ==
    /\ pc = "returned"
    /\ loc.kind = "correlation"
    /\ err = "nil"
    /\ \E tbl \in {(hA :> HdrInfo(MetaA, TRUE)) @@ (hB :> HdrInfo(MetaB, FALSE)),
                   (hA :> HdrInfo(MetaA, TRUE)) @@ (hB :> HdrInfo(MetaB, TRUE))
                       @@ (hC :> HdrInfo(MetaC, FALSE)),
                   (hC :> HdrInfo(MetaC, TRUE)) @@ (hD :> HdrInfo(MetaD, FALSE)),
                   EmptyMap},
          ledger \in {EmptyMap, hA :> {MiniBlockHash(mb1)}} :
          \E o1 \in Perms(UsedHashes(tbl)), o2 \in Perms(UsedHashes(tbl)) :
             LET fromBody == getProcessedMetaBlocksFromMiniBlocks(tbl, ledger, cur.body, o1)
                 fromHeader == getProcessedMetaBlocksFromHeader(tbl, ledger, cur.hdr, o2)
             IN /\ hdrHashAndInfo' = tbl
                /\ processedMiniBlocks' = fromHeader.ledger
                /\ loc' = [kind |-> "processedMetaBlocks", ledger |-> ledger,
                           fromMiniBlocks |-> fromBody.metas,
                           fromHeader |-> fromHeader.metas]
    /\ UNCHANGED <<pc, cur, err, missingHdrs, missingFinalHdrs, currHighestMetaHdrNonce,
                   mutexVars, disp, poolVars, store, notarizedHdrs, blockchain,
                   journalLen, requests, hist>>

NextCorr ==
    \/ correlate
    \/ processedMetaBlocks
    \/ createHeaderOfBody

SpecCorr == InitCorr /\ [][NextCorr]_vars

\* ------------------------------------------------------------------------
\* Relayed move-balance transactions (integrationTests/vm/txsFee)
\* ------------------------------------------------------------------------
\* the relayed transactions of the four tests and their neighbours: the user
\* transaction's nonce, value and gas price, the value of the relayed
\* transaction and what its gas limit adds to userTx.GasLimit + len(rtxData)
RelayedTxs ==
    {[userNonce |-> un, userValue |-> uv, value |-> rv, gasPrice |-> gp,
      userGasLimit |-> 100, extra |-> x, relayerBalance |-> 3000] :
        un \in {0, 1}, uv \in {50, 100, 150}, rv \in {50, 100, 150},
        gp \in {1, 5, 10}, x \in {1, 2}}

\* len(prepareRelayerTxData(userTx)): "relayedTx@" and the hex of the
\* marshalled user transaction; a nonce of 0 is left out of the serialization
rtxDataLen(tx) == 174 + (IF tx.userNonce = 0 THEN 0 ELSE 4)

\* rTxGasLimit := 1 + userTx.GasLimit + uint64(len(rtxData)), or 2 + ...
rTxGasLimit(tx) == tx.extra + tx.userGasLimit + rtxDataLen(tx)

\* the fee moved from the relayer to the accumulated fees when the inner
\* transaction is rejected
rejectedFeeNone(tx) == 0

rejectedFee(tx) == rTxGasLimit(tx) * tx.gasPrice

\* TxProcessor.ProcessTransaction on a relayed transaction, for a relayer of
\* nonce 0, a sender of nonce 0 and balance 0 and a receiver that has no account
processRelayedTx(tx) ==
    LET fee == rTxGasLimit(tx) * tx.gasPrice
        \* the move-balance cost of the relayed data plus the user's gas limit
        gasOk == rTxGasLimit(tx) = (1 + rtxDataLen(tx)) + tx.userGasLimit
        nonceOk == tx.userNonce = 0
        valueOk == tx.value = tx.userValue
    IN  IF gasOk /\ nonceOk /\ valueOk
        THEN [err |-> "nil", retCode |-> "Ok",
              relayer |-> [nonce |-> 1, balance |-> tx.relayerBalance - fee - tx.value],
              sender |-> [nonce |-> 1, balance |-> 0],
              receiver |-> [nonce |-> 0, balance |-> tx.userValue],
              accumulatedFees |-> fee]
        ELSE [err |-> IF gasOk THEN "nil" ELSE "ErrFailedTransaction",
              retCode |-> "UserError",
              relayer |-> [nonce |-> 1, balance |-> tx.relayerBalance - rejectedFee(tx)],
              sender |-> [nonce |-> 0, balance |-> 0],
              receiver |-> [nonce |-> 0, balance |-> 0],
              accumulatedFees |-> rejectedFee(tx)]

InitRelayed ==
    /\ InitCommon
    /\ cur \in RelayedTxs
    /\ pool = {}
    /\ headersNonces = EmptyMap

\* the body of the tests: ProcessTransaction(rtx), then the accounts and the
\* accumulated fees are read
ProcessTransaction ==
    /\ pc = "idle"
    /\ loc.kind = "none"
    /\ LET r == processRelayedTx(cur)
       IN  /\ err' = r.err
           /\ loc' = [kind |-> "relayed", retCode |-> r.retCode, relayer |-> r.relayer,
                      sender |-> r.sender, receiver |-> r.receiver,
                      accumulatedFees |-> r.accumulatedFees]
    /\ pc' = "returned"
    /\ UNCHANGED <<cur, tableVars, mutexVars, disp, poolVars, chainVars,
                   journalLen, requests, hist>>

SpecRelayed == InitRelayed /\ [][ProcessTransaction]_vars

\* ------------------------------------------------------------------------
\* Properties
\* ------------------------------------------------------------------------
AbsentUsed(tbl) == {h \in DOMAIN tbl : tbl[h].usedInBlock /\ tbl[h].hdr = NilHdr}

\* C1: a ProcessBlock that returns an error after the account state may have
\* been written has run RevertAccountState, and the journal is empty on return
C1_RollbackSafety ==
    (pc = "returned" /\ loc.kind = "process" /\ hist.mutated /\ err # "nil")
        => (hist.reverted /\ journalLen = 0)

\* a chain of k headers of hdrs above u, each construction-valid on the one
\* under it
RECURSIVE HasFinalChain(_, _, _)
HasFinalChain(u, hdrs, k) ==
    \/ k = 0
    \/ \E h \in hdrs :
          /\ h.Nonce = u.Nonce + 1
          /\ h.Round > u.Round
          /\ h.PrevHash = MetaHash(u)
          /\ h.PrevRandSeed = u.RandSeed
          /\ HasFinalChain(h, hdrs, k - 1)

TableHdrs(tbl) == {tbl[h].hdr : h \in DOMAIN tbl}

\* C2: a metablock the selector marks used has MetaBlockFinality valid
\* successors among the sorted pool candidates of the cycle, and a metablock
\* ProcessBlock accepts as used has them among the entries of the table
C2_KFinality ==
    /\ (loc.kind = "build" /\ pc \notin {"CreateBlockStarted", "createMiniBlocks"}) =>
          \A h \in UsedHashes(hdrHashAndInfo) :
              HasFinalChain(hdrHashAndInfo[h].hdr, Range(loc.orderedMetaBlocks),
                            MetaBlockFinality)
    /\ (loc.kind = "process" /\ hist.validated) =>
          \A h \in UsedHashes(hdrHashAndInfo) :
              HasFinalChain(hdrHashAndInfo[h].hdr, TableHdrs(hdrHashAndInfo),
                            MetaBlockFinality)

C2_TwoMarkedUsed ==
    /\ loc.kind = "build"
    /\ loc.done = "body"
    /\ Cardinality(UsedHashes(hdrHashAndInfo)) = 2

C1_ErrorAfterWrite ==
    /\ pc = "returned"
    /\ loc.kind = "process"
    /\ hist.mutated
    /\ hist.reverted
    /\ err = "ErrProcessBlockTransaction"

\* C3: between two CreateBlockStarted calls at most one goroutine executes the
\* send on chRcvAllMetaHdrs
C3_AtMostOneSignal == hist.raised <= 1

\* C4: checkHeaderBodyCorrelation returns nil exactly when the header has as
\* many miniblock headers as the body has miniblocks and the i-th header is
\* the hash, shards, transaction count and type of the i-th miniblock;
\* otherwise it returns ErrHeaderBodyMismatch
PerIndexEqual(hdr, body) ==
    /\ Len(hdr.MiniBlockHeaders) = Len(body)
    /\ \A i \in DOMAIN body : hdr.MiniBlockHeaders[i] = MkMiniBlockHeader(body[i])

C4_Correlation ==
    (pc = "returned" /\ loc.kind = "correlation") =>
        /\ err \in {"nil", "ErrHeaderBodyMismatch"}
        /\ (err = "nil") <=> PerIndexEqual(cur.hdr, cur.body)

\* C8: missingHdrs is the number of used entries of the table with no header,
\* from the return of requestMetaHeaders to the end of the wait
C8_MissingHdrsCount ==
    pc \in {"haveTime", "IsDataPreparedForProcessing", "waitForMetaHdrHashes"} =>
        missingHdrs = Cardinality(AbsentUsed(hdrHashAndInfo))

\* C9: the wait ends in a timeout only if some header the cycle needs has not
\* been delivered; requestMetaHeaders counts and requests every absent hash
C9_WaitCompletes ==
    /\ (pc = "haveTime" /\ loc.kind = "process") =>
          /\ loc.requestedMetaHdrs = Len(loc.missingHeadersHashes)
          /\ Len(SelectSeq(requests, LAMBDA r : r.by = "hash")) = Len(loc.missingHeadersHashes)
    /\ hist.waited.res = "timeout" => ~(hist.waited.all /\ hist.waited.quiet)
    /\ (pc = "returned" /\ err = "ErrTimeIsOut") => ~hist.mutated

\* C10: the signal the wait of a cycle receives was raised in that cycle, with
\* every header the cycle needs in the pool
C10_NoStaleSignal ==
    hist.waited.res = "received" =>
        (hist.waited.cycle = hist.cycles /\ hist.waited.all)

NormLedger(ledger) == [k \in {x \in DOMAIN ledger : ledger[x] # {}} |-> ledger[k]]

\* C5: after a successful CommitBlock(B) followed by RestoreBlockIntoPools(B)
\* the metablock pool, the header-nonce index, the ledger and the notarized
\* slice are what they were before the commit
C5_RestoreInvertsCommit ==
    hist.last = "restore" =>
        /\ pool = hist.pre.pool
        /\ headersNonces = hist.pre.headersNonces
        /\ NormLedger(processedMiniBlocks) = NormLedger(hist.pre.ledger)
        /\ notarizedHdrs = hist.pre.notarized

TailNonce(slice) == slice[Len(slice)].Nonce

CommitStep == hist'.commits = hist.commits + 1

\* C6 as stated: every successful commit strictly raises the nonce of the tail
\* of the notarized slice
C6_StrictlyIncreasing ==
    [][CommitStep => TailNonce(notarizedHdrs') > TailNonce(notarizedHdrs)]_vars

\* the metablocks a header references whose self-destined miniblocks are all
\* in the header or in the ledger
FullyProcessedBy(header, ledger) ==
    {h \in Range(header.MetaBlockHashes) :
        GetMiniBlockHeadersWithDst(MetaOf(h)) \subseteq
            ({header.MiniBlockHeaders[i].Hash : i \in DOMAIN header.MiniBlockHeaders}
                \cup getProcessedMiniBlocksHashes(ledger, h))}

\* C6: a successful commit never lowers the nonce of the tail of the notarized
\* slice, and raises it exactly when the block fully processes a metablock
C6_Monotone ==
    [][CommitStep =>
          /\ TailNonce(notarizedHdrs') >= TailNonce(notarizedHdrs)
          /\ (TailNonce(notarizedHdrs') > TailNonce(notarizedHdrs))
                <=> (FullyProcessedBy(cur.hdr, processedMiniBlocks) # {})
      ]_vars

C6_TwoCommits ==
    /\ hist.last = "commit"
    /\ blockchain.hdr.Nonce = 2
    /\ hist.processed > 0

\* C7: every two consecutive entries of the notarized slice are linked by
\* hash, random seed, round and nonce
C7_SliceConstructionValid ==
    \A i \in 1 .. Len(notarizedHdrs) - 1 :
        LET h1 == notarizedHdrs[i]
            h2 == notarizedHdrs[i + 1]
        IN /\ h2.PrevHash = MetaHash(h1)
           /\ h2.PrevRandSeed = h1.RandSeed
           /\ h2.Round > h1.Round
           /\ h2.Nonce = h1.Nonce + 1

\* the hashes of the miniblocks of a body that came from another shard
CrossIn(body) ==
    {MiniBlockHash(body[i]) : i \in {j \in DOMAIN body : body[j].SenderShardID # SelfId}}

\* a CreateBlockBody that returned a body, built over the pool pl on the last
\* notarized metablock MetaG
BuiltOver(pl) ==
    /\ pc = "returned"
    /\ loc.kind = "build"
    /\ loc.done = "body"
    /\ pool = pl
    /\ getLastNotarizedHdr(notarizedHdrs) = MetaG
    /\ loc.round >= HdrRound

\* the build of the happy scenario: M1 = MetaA and M2 = MetaB alone in the
\* pool, time never up, the large item budget, every coordinator call finished
\* with a transaction
HappyBuild ==
    /\ BuiltOver({hA, hB})
    /\ loc.maxItems = MaxItemsToAdd
    /\ ~loc.sel.timeUp
    /\ \A i \in DOMAIN loc.sel.calls :
          loc.sel.calls[i].finished /\ loc.sel.calls[i].txs >= 1

\* C12 as stated: the happy build over a pool of exactly M1 and M2 returns
\* miniblocks of both, hdrsAdded = 2, and both entries used
C12_HappyBuildBoth ==
    HappyBuild =>
        /\ loc.sel.hdrsAdded = 2
        /\ UsedHashes(hdrHashAndInfo) = {hA, hB}
        /\ CrossIn(cur.body) \cap GetMiniBlockHeadersWithDst(MetaA) # {}
        /\ CrossIn(cur.body) \cap GetMiniBlockHeadersWithDst(MetaB) # {}

\* C12: the happy build over a pool of exactly M1 and M2 returns miniblocks of
\* M1 and none of M2, hdrsAdded = 1, and only the entry of M1 is used: M2 has
\* no successor in the pool and is not final
C12_HappyBuildFirst ==
    HappyBuild =>
        /\ loc.sel.hdrsAdded = 1
        /\ UsedHashes(hdrHashAndInfo) = {hA}
        /\ CrossIn(cur.body) \cap GetMiniBlockHeadersWithDst(MetaA) # {}
        /\ CrossIn(cur.body) \cap GetMiniBlockHeadersWithDst(MetaB) = {}

C12_FirstTaken ==
    /\ HappyBuild
    /\ Len(loc.sel.calls) = 1
    /\ loc.sel.calls[1].hash = hA
    /\ loc.sel.txsAdded = 3

\* C13: with only M1 above the last notarized metablock in the pool,
\* CreateBlockBody skips M1, marks no entry used, returns no cross-shard
\* miniblock, and a request by nonce for the header after M1 is emitted
C13_FinalityGap ==
    BuiltOver({hA}) =>
        /\ UsedHashes(hdrHashAndInfo) = {}
        /\ CrossIn(cur.body) = {}
        /\ \E i \in DOMAIN requests :
              requests[i] = [by |-> "nonce", key |-> MetaA.Nonce + 1]

\* C14: every budget the selector hands the coordinator is within what remains
\* of maxItems; a call answered "not finished" is the last one, no later
\* metablock is marked and lastMetaHdr is not moved to its metablock; the
\* metablock of a call is marked used exactly when the call added a
\* transaction; the selector returns what it took, without error
C14_BudgetExhaustion ==
    (pc = "returned" /\ loc.kind = "build" /\ loc.haveTime /\ err # "ErrAccountStateDirty") =>
        /\ \A i \in DOMAIN loc.sel.calls :
              LET c == loc.sel.calls[i]
              IN /\ c.maxTxSpaceRemained <= loc.maxItems - c.txsBefore
                 /\ c.maxMbSpaceRemained <= loc.maxItems - c.itemsBefore
                 /\ c.txs <= c.maxTxSpaceRemained
                 /\ (c.hash \in UsedHashes(hdrHashAndInfo)) <=> (c.txs > 0)
                 /\ ~c.finished =>
                       /\ i = Len(loc.sel.calls)
                       /\ loc.sel.lastMetaHdr # MetaOf(c.hash)
                       /\ \A h \in DOMAIN hdrHashAndInfo :
                             MetaOf(h).Nonce <= MetaOf(c.hash).Nonce
        /\ loc.sel.txsAdded <= loc.maxItems
        /\ err = "nil" => /\ CrossIn(cur.body) \subseteq
                                UNION {GetMiniBlockHeadersWithDst(MetaOf(h)) :
                                          h \in UsedHashes(hdrHashAndInfo)}
                          /\ TxsIn(SelectSeq(cur.body, LAMBDA mb : mb.SenderShardID # SelfId))
                                = loc.sel.txsAdded

C14_Truncated ==
    /\ pc = "returned"
    /\ loc.kind = "build"
    /\ err = "nil"
    /\ Len(loc.sel.calls) = 1
    /\ ~loc.sel.calls[1].finished
    /\ loc.sel.calls[1].txs = 1
    /\ loc.sel.calls[1].hash \in UsedHashes(hdrHashAndInfo)
    /\ loc.maxItems = 2

\* C15: no step of a ProcessBlock call changes the metablock pool, the nonce
\* index, the store, the ledger or the notarized slice, whatever it returns;
\* a call that returns the root-hash mismatch has run RevertAccountState
C15_ProcessBlockFrame ==
    [][/\ (pc' # pc /\ loc'.kind = "process") =>
              UNCHANGED <<pool, headersNonces, store, processedMiniBlocks,
                          notarizedHdrs, blockchain>>
       /\ (pc' = "returned" /\ pc # "returned" /\ loc'.kind = "process"
              /\ err' = "ErrRootStateDoesNotMatch") =>
              (hist'.reverted /\ journalLen' = 0)
      ]_vars

C15_RootMismatch ==
    /\ pc = "returned"
    /\ loc.kind = "process"
    /\ err = "ErrRootStateDoesNotMatch"
    /\ hist.reverted
    /\ pool # {}
    /\ store # EmptyMap

\* a refusal that did nothing: the journal and the table are as they were, the
\* coordinator was not called, no revert was run
Untouched ==
    /\ journalLen' = journalLen
    /\ hdrHashAndInfo' = hdrHashAndInfo
    /\ loc'.sel.calls = <<>>
    /\ cur' = cur
    /\ ~hist'.mutated
    /\ ~hist'.reverted

\* C17: createMiniBlocks returns ErrAccountStateDirty on a non-empty journal
\* and ErrTimeIsOut when haveTime is false on entry, ProcessBlock returns
\* ErrAccountStateDirty at its journal check; each time nothing was applied,
\* the coordinator was not asked, the selector marked nothing and
\* RevertAccountState was not run
C17_CleanRefusal ==
    [][/\ (pc = "createMiniBlocks" /\ pc' # pc /\ journalLen # 0) =>
              (pc' = "returned" /\ err' = "ErrAccountStateDirty" /\ Untouched)
       /\ (pc = "createMiniBlocks" /\ pc' # pc /\ journalLen = 0 /\ ~loc'.haveTime) =>
              (pc' = "returned" /\ err' = "ErrTimeIsOut" /\ Untouched)
       /\ (pc = "checkJournal" /\ pc' # pc /\ journalLen # 0) =>
              (pc' = "returned" /\ err' = "ErrAccountStateDirty" /\ Untouched)
      ]_vars

C17_DirtyBuild ==
    /\ pc = "returned"
    /\ loc.kind = "build"
    /\ err = "ErrAccountStateDirty"
    /\ journalLen # 0
    /\ pool # {}

\* the block B = (MetaBlockHashes [M1], body [mb1, mb2]) was committed and
\* then restored
RestoredM1Block ==
    /\ hist.last = "restore"
    /\ cur.hdr.MetaBlockHashes = <<hA>>
    /\ cur.body = <<mb1, mb2>>

\* C16 as stated: after the commit and the restore of B, M1 is in the pool and
\* the nonce index, the ledger holds M1 -> {mb1, mb2}, and the notarized tail is
\* the predecessor of M1
C16_RestoreRoundTrip ==
    RestoredM1Block =>
        /\ InPool(pool, hA)
        /\ PoolHasNonce(pool, headersNonces, MetaA.Nonce)
        /\ getProcessedMiniBlocksHashes(processedMiniBlocks, hA)
              = {MiniBlockHash(mb1), MiniBlockHash(mb2)}
        /\ getLastNotarizedHdr(notarizedHdrs) = MetaG

\* C16: after the commit and the restore of B, M1 is in the pool and the nonce
\* index, the notarized tail is the predecessor of M1, and the ledger holds
\* neither mb1 nor mb2 under M1
C16_RestoreRoundTripStripped ==
    RestoredM1Block =>
        /\ InPool(pool, hA)
        /\ PoolHasNonce(pool, headersNonces, MetaA.Nonce)
        /\ getProcessedMiniBlocksHashes(processedMiniBlocks, hA) = {}
        /\ getLastNotarizedHdr(notarizedHdrs) = MetaG

C16_M1Restored ==
    /\ RestoredM1Block
    /\ ~hist.putErr
    /\ hA \in DOMAIN processedMiniBlocks
    /\ ~StoreHas(store, "MetaBlockUnit", hA)

\* C18: a RestoreBlockIntoPools that returns for a nil or wrongly typed
\* argument leaves the notarized slice, the ledger, the pools and the store as
\* they were, and a ProcessBlock with a nil haveTime returns
\* ErrNilHaveTimeHandler with the table and its counters unchanged
C18_NilArgumentsTouchNothing ==
    [][/\ (pc = "idle" /\ pc' = "returned" /\ loc'.kind = "restore"
              /\ err' \in {"ErrNilBlockHeader", "ErrNilTxBlockBody", "ErrWrongTypeAssertion"}) =>
              UNCHANGED <<notarizedHdrs, processedMiniBlocks, pool, headersNonces, store>>
       /\ (pc = "idle" /\ pc' = "returned" /\ err' = "ErrNilHaveTimeHandler") =>
              UNCHANGED tableVars
      ]_vars

\* C19: a ProcessBlock whose remaining time is not positive at the check after
\* requestMetaHeaders returns ErrTimeIsOut, without waiting and without
\* applying a transaction
C19_NonPositiveCancels ==
    (loc.kind = "process" /\ loc.remaining <= 0) =>
        /\ pc \in {"returned", "idle"}
        /\ err = "ErrTimeIsOut"
        /\ hist.waited.res = "none"
        /\ ~hist.mutated

\* C20: after a CommitBlock that returned nil the store holds the header under
\* BlockHeaderUnit, its hash under the shard's nonce-hash unit and every
\* miniblock of the body under MiniBlockUnit, the nonce of the header is in the
\* nonce index, and the chain head is the block
C20_CommitDurability ==
    hist.last = "commit" =>
        LET header == blockchain.hdr
            headerHash == HeaderHash(header)
        IN /\ blockchain = cur
           /\ StoreHas(store, "BlockHeaderUnit", headerHash)
           /\ store[<<"BlockHeaderUnit", headerHash>>] = header
           /\ StoreHas(store, "ShardHdrNonceHashDataUnit", header.Nonce)
           /\ store[<<"ShardHdrNonceHashDataUnit", header.Nonce>>] = headerHash
           /\ \A i \in DOMAIN cur.body :
                 /\ StoreHas(store, "MiniBlockUnit", MiniBlockHash(cur.body[i]))
                 /\ store[<<"MiniBlockUnit", MiniBlockHash(cur.body[i])>>] = cur.body[i]
           /\ <<header.Nonce, SelfId>> \in DOMAIN headersNonces
           /\ headersNonces[<<header.Nonce, SelfId>>] = headerHash

\* what the four tests assert of the relayer and of the accumulated fees
RelayedTestsAsserted ==
    (pc = "returned" /\ loc.kind = "relayed" /\ cur.userValue = 100) =>
        /\ (cur.userNonce = 0 /\ cur.value = 100 /\ cur.gasPrice = 10 /\ cur.extra = 1)
              => (err = "nil" /\ loc.relayer = [nonce |-> 1, balance |-> 150]
                  /\ loc.sender = [nonce |-> 1, balance |-> 0]
                  /\ loc.receiver = [nonce |-> 0, balance |-> 100]
                  /\ loc.accumulatedFees = 2750)
        /\ (cur.userNonce = 0 /\ cur.value = 100 /\ cur.gasPrice = 1 /\ cur.extra = 2)
              => (err = "ErrFailedTransaction"
                  /\ loc.relayer = [nonce |-> 1, balance |-> 2724]
                  /\ loc.accumulatedFees = 276)
        /\ (cur.userNonce = 1 /\ cur.value = 100 /\ cur.gasPrice = 1 /\ cur.extra = 1)
              => (err = "nil" /\ loc.retCode = "UserError"
                  /\ loc.relayer = [nonce |-> 1, balance |-> 2721]
                  /\ loc.accumulatedFees = 279)

RelayedRejected ==
    \/ cur.extra # 1
    \/ cur.userNonce # 0
    \/ cur.value # cur.userValue

C22_BuiltChainAccepted ==
    (loc.kind = "build" /\ loc.done \in {"body", "built"}) =>
        \A q \in SortedSeqs(UsedHdrs(hdrHashAndInfo)) :
            validityLoop(q, 1, getLastNotarizedHdr(notarizedHdrs)).err = "nil"

\* C23: the steps of ProcessBlock run in one order and each only after the one
\* before it succeeded: correlation, reset and requests, the time check,
\* IsDataPreparedForProcessing, the wait (when headers were requested), the
\* journal check, metaheader validity and finality, cross-shard confirmation,
\* and then, once, ProcessBlockTransaction; a step that fails returns its error
\* and no later step runs
C23_StepOrdering ==
    [][(loc'.kind = "process" /\ pc' # pc) =>
        /\ pc' = "CreateBlockStarted" =>
              (pc = "idle" /\ checkHeaderBodyCorrelation(cur'.hdr, cur'.body) = "nil")
        /\ pc' = "requestMetaHeaders" => pc = "CreateBlockStarted"
        /\ pc' = "computeMissingAndExistingMetaHeaders" => pc = "requestMetaHeaders"
        /\ pc' = "insertMissing" => pc = "computeMissingAndExistingMetaHeaders"
        /\ pc' = "haveTime" => pc \in {"requestMetaHeaders", "insertMissing"}
        /\ pc' = "IsDataPreparedForProcessing" => (pc = "haveTime" /\ loc'.remaining >= 0)
        /\ pc' = "waitForMetaHdrHashes" =>
              /\ pc = "IsDataPreparedForProcessing"
              /\ loc.requestedMetaHdrs > 0 \/ loc.requestedFinalMetaHdrs > 0
        /\ pc' = "postWait" => pc = "waitForMetaHdrHashes"
        /\ pc' = "checkJournal" =>
              \/ /\ pc = "IsDataPreparedForProcessing"
                 /\ loc.requestedMetaHdrs = 0
                 /\ loc.requestedFinalMetaHdrs = 0
              \/ pc = "postWait" /\ loc.waitErr = "nil"
        /\ pc' = "checkMetaHeadersValidityAndFinality" =>
              (pc = "checkJournal" /\ journalLen = 0)
        /\ pc' = "verifyCrossShardMiniBlockDstMe" =>
              (pc = "checkMetaHeadersValidityAndFinality" /\ hist'.validated)
        /\ pc' = "processBlockTransactions" =>
              /\ pc = "verifyCrossShardMiniBlockDstMe"
              /\ HdrMiniBlockHeadersWithDst(cur.hdr) \subseteq
                    getAllMiniBlockDstMeFromMeta(hdrHashAndInfo, notarizedHdrs, cur.hdr.Round)
              /\ ~hist.mutated
        /\ pc' = "deferred" => (pc = "processBlockTransactions" /\ hist'.mutated)
        /\ pc' = "returned" => (pc = "deferred" \/ err' # "nil")
        /\ (pc = "haveTime" /\ loc'.remaining < 0) =>
              (pc' = "returned" /\ err' = "ErrTimeIsOut")
        /\ (pc = "postWait" /\ loc.waitErr # "nil") =>
              (pc' = "returned" /\ err' = loc.waitErr)
        /\ (pc = "checkJournal" /\ journalLen # 0) =>
              (pc' = "returned" /\ err' = "ErrAccountStateDirty")
        /\ (pc = "checkMetaHeadersValidityAndFinality" /\ ~hist'.validated) =>
              (pc' = "returned" /\ err' # "nil")
    ]_vars

C23_AppliedAfterWait ==
    /\ pc = "deferred"
    /\ loc.kind = "process"
    /\ hist.mutated
    /\ hist.waited.res = "received"
    /\ err = "nil"
    /\ Len(cur.hdr.MetaBlockHashes) > 0

\* the used headers q, in order, each construction-valid on the one before,
\* the first on prev
RECURSIVE ChainedFrom(_, _)
ChainedFrom(q, prev) ==
    \/ q = <<>>
    \/ /\ isHdrConstructionValid(Head(q), prev) = "nil"
       /\ ChainedFrom(Tail(q), Head(q))

\* the errors isHdrConstructionValid gives along q
ChainErrors(q, prev) ==
    {isHdrConstructionValid(q[i], IF i = 1 THEN prev ELSE q[i - 1]) : i \in DOMAIN q}
        \ {"nil"}

\* C24: checkMetaHeadersValidityAndFinality succeeds when no header is marked
\* used; otherwise it succeeds only if the used headers, sorted by nonce, chain
\* from the last notarized metablock and the last of them has MetaBlockFinality
\* valid successors among the entries not marked used; a broken chain returns
\* the error of the construction check, a chain that is not final returns
\* ErrHeaderNotFinal and requests the next metachain header by nonce
C24_ValidityAndFinality ==
    [][(pc = "checkMetaHeadersValidityAndFinality" /\ pc' # pc) =>
        LET last == getLastNotarizedHdr(notarizedHdrs)
            sorted == SortedSeqs(UsedHdrs(hdrHashAndInfo))
            rest == NotUsedHdrs(hdrHashAndInfo)
            passed == pc' = "verifyCrossShardMiniBlockDstMe"
        IN  /\ passed \/ (pc' = "returned" /\ err' # "nil")
            /\ UsedHashes(hdrHashAndInfo) = {} => passed
            /\ (passed /\ UsedHashes(hdrHashAndInfo) # {}) =>
                  \E q \in sorted :
                      /\ ChainedFrom(q, last)
                      /\ HasFinalChain(q[Len(q)], rest, MetaBlockFinality)
            /\ (NilHdr \notin UsedHdrs(hdrHashAndInfo) /\ UsedHashes(hdrHashAndInfo) # {}) =>
                  /\ (\A q \in sorted : ~ChainedFrom(q, last)) =>
                        (~passed /\ \E q \in sorted : err' \in ChainErrors(q, last))
                  /\ \A q \in sorted :
                        (ChainedFrom(q, last)
                            /\ ~HasFinalChain(q[Len(q)], rest, MetaBlockFinality)) =>
                        /\ err' = "ErrHeaderNotFinal"
                        /\ requests' = Append(requests,
                               [by |-> "nonce", key |-> q[Len(q)].Nonce + 1])
                  /\ \A q \in sorted :
                        (ChainedFrom(q, last)
                            /\ HasFinalChain(q[Len(q)], rest, MetaBlockFinality)) => passed
    ]_vars

C24_NotFinalRequested ==
    /\ pc = "returned"
    /\ loc.kind = "process"
    /\ err = "ErrHeaderNotFinal"
    /\ Len(requests) > 0
    /\ requests[Len(requests)].by = "nonce"
    /\ UsedHashes(hdrHashAndInfo) # {}

\* a miniblock hash is confirmed by a table entry marked used whose metablock
\* lies in the round and nonce window and lists it for the self shard
ConfirmedByMeta(hash, tbl, lastHdr, round) ==
    \E h \in DOMAIN tbl :
        /\ tbl[h].usedInBlock
        /\ tbl[h].hdr # NilHdr
        /\ tbl[h].hdr.Round > lastHdr.Round
        /\ tbl[h].hdr.Round <= round
        /\ tbl[h].hdr.Nonce > lastHdr.Nonce
        /\ hash \in tbl[h].hdr.MiniBlocksDstMe

\* C25: ProcessBlock gets past verifyCrossShardMiniBlockDstMe only if every
\* cross-shard miniblock header of the incoming header destined to the self
\* shard is listed by a used metablock of the table with round in
\* (lastNotarized.round, header.round] and nonce above the last notarized one;
\* otherwise it returns ErrCrossShardMBWithoutConfirmationFromMeta with no
\* transaction applied
C25_CrossShardConfirmation ==
    [][(pc = "verifyCrossShardMiniBlockDstMe" /\ pc' # pc) =>
        LET confirmed ==
                \A i \in DOMAIN cur.hdr.MiniBlockHeaders :
                    (/\ cur.hdr.MiniBlockHeaders[i].ReceiverShardID = SelfId
                     /\ cur.hdr.MiniBlockHeaders[i].SenderShardID # SelfId) =>
                        ConfirmedByMeta(cur.hdr.MiniBlockHeaders[i].Hash, hdrHashAndInfo,
                                        getLastNotarizedHdr(notarizedHdrs), cur.hdr.Round)
        IN  IF confirmed
            THEN pc' = "processBlockTransactions" /\ err' = "nil"
            ELSE /\ pc' = "returned"
                 /\ err' = "ErrCrossShardMBWithoutConfirmationFromMeta"
                 /\ ~hist'.mutated
                 /\ journalLen' = journalLen
    ]_vars

C25_Unconfirmed ==
    /\ pc = "returned"
    /\ loc.kind = "process"
    /\ err = "ErrCrossShardMBWithoutConfirmationFromMeta"
    /\ UsedHashes(hdrHashAndInfo) = {hA}
    /\ hB \in DOMAIN hdrHashAndInfo
    /\ ~hist.mutated

StepAt(name) == {i \in DOMAIN loc.steps : loc.steps[i] = name}

C28_PoolThenLedger ==
    (pc = "returned" /\ loc.kind = "commit" /\ err = "nil") =>
        /\ \A h \in hist.pre.pool \ pool :
              /\ StoreHas(store, "MetaBlockUnit", h)
              /\ StoreHas(store, "MetaHdrNonceHashDataUnit", MetaOf(h).Nonce)
              /\ h \notin DOMAIN processedMiniBlocks
              /\ <<MetaOf(h).Nonce, MetachainShardId>> \notin DOMAIN headersNonces
        /\ \A h \in DOMAIN hist.pre.ledger \ DOMAIN processedMiniBlocks :
              /\ h \notin pool
              /\ StoreHas(store, "MetaBlockUnit", h)
        /\ \A h \in UsedHashes(hdrHashAndInfo) \cap pool :
              (/\ hdrHashAndInfo[h].hdr # NilHdr
               /\ GetMiniBlockHeadersWithDst(hdrHashAndInfo[h].hdr) \cap
                     HdrMiniBlockHeadersWithDst(cur.hdr) # {}) =>
                  /\ h \in DOMAIN processedMiniBlocks
                  /\ GetMiniBlockHeadersWithDst(hdrHashAndInfo[h].hdr) \cap
                        HdrMiniBlockHeadersWithDst(cur.hdr) \subseteq processedMiniBlocks[h]
        /\ hist.putErr =>
              /\ pool = hist.pre.pool
              /\ DOMAIN hist.pre.ledger \subseteq DOMAIN processedMiniBlocks

C28_WriteFailedKept ==
    /\ pc = "returned"
    /\ loc.kind = "commit"
    /\ err = "nil"
    /\ hist.putErr
    /\ hist.processed = 1
    /\ hA \in pool
    /\ hA \in DOMAIN processedMiniBlocks
    /\ getLastNotarizedHdr(notarizedHdrs) = MetaA
    /\ ~StoreHas(store, "MetaBlockUnit", hA)

\* C29: for a header and body that pass the correlation check, and every table
\* and ledger, getProcessedMetaBlocksFromMiniBlocks(body) and
\* getProcessedMetaBlocksFromHeader(header) give the same metablocks, in
\* whatever order the table is ranged over
C29_SameProcessedMetaBlocks ==
    loc.kind = "processedMetaBlocks" => loc.fromMiniBlocks = loc.fromHeader

\* C30: the selector's loop ends at the first candidate met when the time is
\* up, or MaxMiniBlocksInBlock miniblocks are there, or the table size plus the
\* miniblocks reach maxItems; the coordinator is called only for a final,
\* construction-valid candidate with miniblocks for this shard, only when
\* maxTxSpace = maxItems - txsAdded and maxMbSpace = min(maxItems - (table size
\* + 1) - miniblocks so far, MaxMiniBlocksInBlock - miniblocks so far) are both
\* positive, and with exactly those two values
C30_SelectorBudget ==
    (pc = "returned" /\ loc.kind = "build" /\ loc.haveTime /\ err # "ErrAccountStateDirty") =>
        /\ \A i \in DOMAIN loc.sel.calls :
              LET c == loc.sel.calls[i]
                  hdr == MetaOf(c.hash)
              IN /\ c.miniBlocksBefore < MaxMiniBlocksInBlock
                 /\ c.tableBefore + c.miniBlocksBefore < loc.maxItems
                 /\ c.maxTxSpaceRemained = loc.maxItems - c.txsBefore
                 /\ c.maxMbSpaceRemained =
                        Min(loc.maxItems - (c.tableBefore + 1) - c.miniBlocksBefore,
                            MaxMiniBlocksInBlock - c.miniBlocksBefore)
                 /\ c.maxTxSpaceRemained > 0
                 /\ c.maxMbSpaceRemained > 0
                 /\ GetMiniBlockHeadersWithDst(hdr) # {}
                 /\ isHdrConstructionValid(hdr, c.lastBefore) = "nil"
                 /\ \E k \in DOMAIN loc.orderedMetaBlocks :
                       /\ loc.orderedMetaBlocks[k] = hdr
                       /\ isMetaHeaderFinal(hdr, loc.orderedMetaBlocks, k + 1)
        /\ loc.sel.timeUp <=> loc.sel.stop = "haveTime"
        /\ loc.sel.stop = "MaxMiniBlocksInBlock" => loc.sel.miniBlocks >= MaxMiniBlocksInBlock
        /\ loc.sel.stop = "maxItemsInBlock" =>
              Cardinality(DOMAIN hdrHashAndInfo) + loc.sel.miniBlocks >= loc.maxItems

\* a build whose loop ended on the item budget after a call whose miniblock
\* budget was the room left in the items
C30_ItemBudgetStop ==
    /\ pc = "returned"
    /\ loc.kind = "build"
    /\ err = "nil"
    /\ loc.sel.stop = "maxItemsInBlock"
    /\ \E i \in DOMAIN loc.sel.calls :
          /\ loc.sel.calls[i].maxMbSpaceRemained
                < MaxMiniBlocksInBlock - loc.sel.calls[i].miniBlocksBefore
          /\ loc.sel.calls[i].txs > 0

\* what the selector's log tells about skipped candidates: the candidates are
\* the sorted list in its order (strictly ascending nonces if strict, else
\* ascending); a candidate is skipped as not valid or not final exactly when it
\* is so on the lastMetaHdr of that moment; such a skip leaves lastMetaHdr as
\* it was and does not end the loop (only haveTime can end it before the next
\* candidate); a valid and final candidate is marked, or handed to the
\* coordinator, or passed over for want of space
SkipKeepsLater(strict) ==
    LET q == loc.orderedMetaBlocks
        seen == loc.sel.seen
        valid(i) == isHdrConstructionValid(q[i], seen[i].lastBefore) = "nil"
        final(i) == isMetaHeaderFinal(q[i], q, i + 1)
    IN /\ \A i \in 1 .. Len(q) - 1 :
             IF strict THEN q[i].Nonce < q[i + 1].Nonce ELSE q[i].Nonce <= q[i + 1].Nonce
       /\ Len(seen) <= Len(q)
       /\ \A i \in DOMAIN seen :
             /\ seen[i].hash = MetaHash(q[i])
             /\ seen[i].what = "notValid" <=> ~valid(i)
             /\ seen[i].what = "notFinal" <=> (valid(i) /\ ~final(i))
             /\ (valid(i) /\ final(i)) <=>
                    seen[i].what \in {"noMiniBlocks", "called", "noSpace"}
             /\ seen[i].what \in {"notValid", "notFinal"} =>
                   /\ i < Len(seen) => seen[i + 1].lastBefore = seen[i].lastBefore
                   /\ (i = Len(seen) /\ i < Len(q)) => loc.sel.stop = "haveTime"
                   /\ i = Len(seen) => loc.sel.lastMetaHdr = seen[i].lastBefore

\* C31 (as stated): the candidates are in strictly ascending nonce order, and a
\* candidate skipped as construction-invalid on lastMeta or not final neither
\* stops the loop nor changes lastMeta, so a later valid and final candidate
\* is still selected
C31_SkipStrictOrder ==
    (pc = "returned" /\ loc.kind = "build" /\ loc.haveTime /\ err # "ErrAccountStateDirty") =>
        SkipKeepsLater(TRUE)

\* C31 (amended): the same with the candidates in ascending nonce order, two
\* metablocks of one nonce in either order
C31_SkipKeepsLater ==
    (pc = "returned" /\ loc.kind = "build" /\ loc.haveTime /\ err # "ErrAccountStateDirty") =>
        SkipKeepsLater(FALSE)

\* a build that skipped a construction-invalid metablock and took transactions
\* of a later one of the same nonce
C31_TakenAfterSkip ==
    /\ pc = "returned"
    /\ loc.kind = "build"
    /\ err = "nil"
    /\ \E i, j \in DOMAIN loc.sel.seen :
          /\ i < j
          /\ loc.sel.seen[i].what = "notValid"
          /\ loc.sel.seen[j].what = "called"
          /\ MetaOf(loc.sel.seen[i].hash).Nonce = MetaOf(loc.sel.seen[j].hash).Nonce
          /\ loc.sel.seen[j].hash \in UsedHashes(hdrHashAndInfo)

\* C32: a candidate that is construction-valid on lastMetaHdr and final and has
\* no miniblock for this shard is put in the table with usedInBlock = true,
\* is counted in hdrsAdded, becomes the new lastMetaHdr, and the coordinator
\* is not called for it
C32_EmptyMetaBlockAdvances ==
    (pc = "returned" /\ loc.kind = "build" /\ loc.haveTime /\ err # "ErrAccountStateDirty") =>
        LET q == loc.orderedMetaBlocks
            seen == loc.sel.seen
            calls == loc.sel.calls
            empty == {i \in DOMAIN seen : seen[i].what = "noMiniBlocks"}
        IN /\ \A i \in DOMAIN seen :
                 (/\ isHdrConstructionValid(q[i], seen[i].lastBefore) = "nil"
                  /\ isMetaHeaderFinal(q[i], q, i + 1)
                  /\ GetMiniBlockHeadersWithDst(q[i]) = {}) <=> i \in empty
           /\ \A i \in empty :
                 /\ seen[i].hash \in DOMAIN hdrHashAndInfo
                 /\ hdrHashAndInfo[seen[i].hash] = HdrInfo(q[i], TRUE)
                 /\ IF i < Len(seen) THEN seen[i + 1].lastBefore = q[i]
                    ELSE loc.sel.lastMetaHdr = q[i]
                 /\ \A k \in DOMAIN calls : calls[k].hash # seen[i].hash
           /\ loc.sel.hdrsAdded =
                 Cardinality(empty) + Cardinality({k \in DOMAIN calls : calls[k].txs > 0})

\* a build that marked a metablock without miniblocks for this shard after one
\* whose miniblock it took
C32_EmptyMarked ==
    /\ pc = "returned"
    /\ loc.kind = "build"
    /\ err = "nil"
    /\ \E i \in DOMAIN loc.sel.seen :
          /\ loc.sel.seen[i].what = "noMiniBlocks"
          /\ loc.sel.seen[i].hash \in UsedHashes(hdrHashAndInfo)
    /\ loc.sel.hdrsAdded = 2
    /\ Len(loc.sel.calls) = 1

\* C33: a successful RestoreBlockIntoPools leaves every metablock it reloaded
\* in the pool and the nonce index and in neither storage unit; a successful
\* CommitBlock leaves every fully processed metablock in both storage units
\* and in neither the pool nor the nonce index; and no metablock is ever in the
\* pool and in the storage at once
C33_PoolStorageDisjoint ==
    [][/\ (pc = "idle" /\ pc' = "returned" /\ loc'.kind = "restore" /\ err' = "nil") =>
             \A i \in DOMAIN blockchain.hdr.MetaBlockHashes :
                LET h == blockchain.hdr.MetaBlockHashes[i]
                    key == <<MetaOf(h).Nonce, MetachainShardId>>
                IN StoreHas(store, "MetaBlockUnit", h) =>
                      /\ h \in pool'
                      /\ key \in DOMAIN headersNonces' /\ headersNonces'[key] = h
                      /\ ~StoreHas(store', "MetaBlockUnit", h)
                      /\ ~StoreHas(store', "MetaHdrNonceHashDataUnit", MetaOf(h).Nonce)
       /\ (pc = "idle" /\ pc' = "returned" /\ loc'.kind = "commit" /\ err' = "nil") =>
             \A order \in Perms(UsedHashes(hdrHashAndInfo)) :
                \A m \in getProcessedMetaBlocksFromHeader(hdrHashAndInfo, processedMiniBlocks,
                                                          cur.hdr, order).metas :
                   /\ StoreHas(store', "MetaBlockUnit", MetaHash(m))
                   /\ StoreHas(store', "MetaHdrNonceHashDataUnit", m.Nonce)
                   /\ MetaHash(m) \notin pool'
                   /\ <<m.Nonce, MetachainShardId>> \notin DOMAIN headersNonces'
       /\ \A h \in pool' :
             /\ ~StoreHas(store', "MetaBlockUnit", h)
             /\ ~(/\ StoreHas(store', "MetaHdrNonceHashDataUnit", MetaOf(h).Nonce)
                  /\ store'[<<"MetaHdrNonceHashDataUnit", MetaOf(h).Nonce>>] = h)
      ]_vars

\* C34: the header CreateBlockHeader returns for a body has one miniblock
\* header per miniblock of the body, in the order of the body, each made of the
\* hash, the sender shard, the receiver shard, the transaction count and the
\* type of its miniblock; its TxCount is the sum of the miniblocks' transaction
\* counts; and it passes checkHeaderBodyCorrelation against that body
C34_HeaderRoundTrip ==
    (pc = "returned" /\ loc.kind = "correlation" /\ loc.done = "built") =>
        /\ Len(cur.hdr.MiniBlockHeaders) = Len(cur.body)
        /\ \A i \in DOMAIN cur.body :
              cur.hdr.MiniBlockHeaders[i] =
                  [Hash |-> MiniBlockHash(cur.body[i]),
                   SenderShardID |-> cur.body[i].SenderShardID,
                   ReceiverShardID |-> cur.body[i].ReceiverShardID,
                   TxCount |-> Len(cur.body[i].TxHashes),
                   Type |-> cur.body[i].Type]
        /\ cur.hdr.TxCount = TxsIn(cur.body)
        /\ err = "nil"

\* a header created for the body of mb2 and mb1, in that order, and checked
C34_TwoMiniBlocksBuilt ==
    /\ pc = "returned"
    /\ loc.kind = "correlation"
    /\ loc.done = "built"
    /\ cur.body = <<mb2, mb1>>
    /\ cur.hdr.TxCount = 3
    /\ err = "nil"

\* C35: whatever body handler CreateBlockHeader is given, the MetaBlockHashes
\* of the header it returns are the hashes of the table entries marked used at
\* the call, each once, in ascending order of the nonces of their metablocks
C35_MetaBlockHashesOfUsed ==
    [][(/\ pc = "idle" /\ loc.kind = "build" /\ loc.done = "body"
        /\ loc'.done \in {"built", "nilBody"}) =>
          LET hashes == cur'.hdr.MetaBlockHashes
          IN /\ Range(hashes) = UsedHashes(hdrHashAndInfo)
             /\ Len(hashes) = Cardinality(UsedHashes(hdrHashAndInfo))
             /\ \A i, j \in DOMAIN hashes :
                   i < j => MetaOf(hashes[i]).Nonce <= MetaOf(hashes[j]).Nonce]_vars

\* C36: when a ProcessBlock cycle comes to look up the headers of its block,
\* and when a CreateBlockBody cycle comes to select, CreateBlockStarted has run
\* in the cycle, the table is empty, missingHdrs and missingFinalHdrs are 0,
\* and no goroutine is in the send on chRcvAllMetaHdrs
C36_CycleReset ==
    (pc \in {"computeMissingAndExistingMetaHeaders", "createMiniBlocks"}) =>
        /\ hist.cycles >= 1
        /\ hdrHashAndInfo = EmptyMap
        /\ missingHdrs = 0
        /\ missingFinalHdrs = 0
        /\ \A d \in Disp : disp[d].pc # "blocked"

\* ------------------------------------------------------------------------
\* The two mutexes, one step per lock operation
\* ------------------------------------------------------------------------
\* In Spec and SpecChain a critical section is one action.  SpecLock takes the
\* other view: every Lock, RLock, Unlock and RUnlock of shardblock.go is a step
\* of its own, and so is every access to the state between them.  Of the
\* header-tracking state it keeps what decides who writes: the two counters
\* (the guard of receivedMetaBlock at line 1049) and currHighestMetaHdrNonce.
\* An instruction is <<operation, mutex, source line, effect>>.  Only the
\* driver thread takes read locks, so a mutex has at most one holder and its
\* value is "free" or "<operation>:<thread>".

\* the lock operations and accesses on the driver's call path of one operation;
\* waits tells whether ProcessBlock requested headers (lines 220-228)
DriverLocks(op, waits) ==
    LET T == "mutHdrsForBlock"
        L == "mutProcessedMiniBlocks"
        CreateBlockStartedLocks ==
            <<<<"Lock", T, 1695, "none">>, <<"write", T, 1696, "reset">>,
              <<"Unlock", T, 1699, "none">>>>
        computeLocks ==
            <<<<"write", T, 1151, "zeroHighest">>, <<"Lock", T, 1153, "none">>,
              <<"write", T, 1154, "compute">>, <<"Unlock", T, 1171, "none">>>>
        requestLocks ==
            <<<<"Lock", T, 1132, "none">>, <<"write", T, 1133, "requestFinal">>,
              <<"Unlock", T, 1144, "mayReturn">>>>
        waitLocks ==
            IF waits
            THEN <<<<"Lock", T, 224, "none">>, <<"write", T, 225, "reset">>,
                   <<"Unlock", T, 228, "mayReturn">>>>
            ELSE <<>>
        sortLocks ==
            <<<<"RLock", T, 1705, "none">>, <<"read", T, 1707, "none">>,
              <<"RUnlock", T, 1719, "mayReturn">>>>
        sortHashesLocks ==
            <<<<"RLock", T, 1733, "none">>, <<"read", T, 1735, "none">>,
              <<"RUnlock", T, 1741, "none">>>>
        allDstMeLocks ==
            <<<<"RLock", T, 1200, "none">>, <<"read", T, 1201, "none">>,
              <<"RUnlock", T, 1224, "mayReturn">>>>
        isProcessedLocks ==
            <<<<"RLock", L, 1667, "none">>, <<"read", L, 1668, "none">>,
              <<"RUnlock", L, 1675, "none">>>>
        hashesLocks ==
            <<<<"RLock", L, 1659, "none">>, <<"read", L, 1660, "none">>,
              <<"RUnlock", L, 1661, "none">>>>
        addLocks ==
            <<<<"Lock", L, 1627, "none">>, <<"write", L, 1628, "none">>,
              <<"Unlock", L, 1638, "none">>>>
        removeLocks ==
            <<<<"Lock", L, 1642, "none">>, <<"write", L, 1643, "none">>,
              <<"Unlock", L, 1649, "none">>>>
        removeAllLocks ==
            <<<<"Lock", L, 1653, "none">>, <<"write", L, 1654, "none">>,
              <<"Unlock", L, 1655, "none">>>>
        fromHashesLocks ==
            <<<<"RLock", T, 913, "none">>, <<"read", T, 916, "none">>>>
            \o isProcessedLocks \o <<<<"RUnlock", T, 957, "mayReturn">>>>
        fromMiniBlocksLocks ==
            <<<<"RLock", T, 876, "none">>, <<"read", T, 877, "none">>,
              <<"RUnlock", T, 878, "mayReturn">>>> \o fromHashesLocks
        fromHeaderLocks ==
            fromHashesLocks
            \o <<<<"RLock", T, 845, "none">>, <<"read", T, 847, "none">>>>
            \o addLocks \o <<<<"RUnlock", T, 864, "mayReturn">>>>
        selectorLocks ==
            <<<<"Lock", T, 1337, "none">>, <<"write", T, 1371, "none">>>>
            \o hashesLocks
            \o <<<<"write", T, 1403, "none">>, <<"Unlock", T, 1414, "none">>>>
    IN  CASE op = "ProcessBlock" ->
                CreateBlockStartedLocks \o computeLocks \o requestLocks \o waitLocks
                \o sortLocks \o sortLocks \o allDstMeLocks \o fromMiniBlocksLocks
          [] op = "CreateBlock" ->
                CreateBlockStartedLocks \o selectorLocks \o fromMiniBlocksLocks
                \o sortHashesLocks
          [] op = "CommitBlock" -> fromHeaderLocks \o removeAllLocks
          [] op = "RestoreBlockIntoPools" -> addLocks \o removeLocks

\* a callback that returns without releasing the table mutex
receivedMetaBlockNoUnlock ==
    <<<<"Lock", "mutHdrsForBlock", 1047, "none">>,
      <<"guard", "mutHdrsForBlock", 1049, "none">>,
      <<"write", "mutHdrsForBlock", 1050, "received">>>>

\* the lock operations and accesses of one receivedMetaBlock call: the guard at
\* line 1049 skips the write when nothing is missing (Unlock at 1079)
receivedMetaBlockLocks ==
    <<<<"Lock", "mutHdrsForBlock", 1047, "none">>,
      <<"guard", "mutHdrsForBlock", 1049, "none">>,
      <<"write", "mutHdrsForBlock", 1050, "received">>,
      <<"Unlock", "mutHdrsForBlock", 1072, "none">>>>

\* one instruction of thread t: what it does to the mutexes and to the counters
LockStep(t, ins) ==
    LET held == IF ins[2] = "mutHdrsForBlock" THEN mutHdrsForBlock
                ELSE mutProcessedMiniBlocks
        set(v) == IF ins[2] = "mutHdrsForBlock"
                  THEN mutHdrsForBlock' = v /\ UNCHANGED mutProcessedMiniBlocks
                  ELSE mutProcessedMiniBlocks' = v /\ UNCHANGED mutHdrsForBlock
    IN  /\ CASE ins[1] \in {"Lock", "RLock"} -> held = "free" /\ set(ins[1] \o ":" \o t)
              [] ins[1] \in {"Unlock", "RUnlock"} -> set("free")
              [] OTHER -> UNCHANGED mutexVars
        /\ CASE ins[4] = "reset" ->
                    /\ missingHdrs' = 0
                    /\ missingFinalHdrs' = 0
                    /\ UNCHANGED currHighestMetaHdrNonce
              [] ins[4] = "zeroHighest" ->
                    /\ currHighestMetaHdrNonce' = 0
                    /\ UNCHANGED <<missingHdrs, missingFinalHdrs>>
              [] ins[4] = "compute" ->
                    /\ missingHdrs' \in {missingHdrs, IncUint32(missingHdrs)}
                    /\ \E h \in {currHighestMetaHdrNonce, MetaA.Nonce} :
                          currHighestMetaHdrNonce' = h
                    /\ UNCHANGED missingFinalHdrs
              [] ins[4] = "requestFinal" ->
                    /\ IF missingHdrs = 0
                       THEN \E n \in 0 .. MetaBlockFinality : missingFinalHdrs' = n
                       ELSE UNCHANGED missingFinalHdrs
                    /\ UNCHANGED <<missingHdrs, currHighestMetaHdrNonce>>
              [] ins[4] = "received" ->
                    \E found \in {b \in BOOLEAN : b => missingHdrs > 0} :
                        LET left == IF found THEN missingHdrs - 1 ELSE missingHdrs
                        IN  /\ missingHdrs' = left
                            /\ \E h \in IF found
                                        THEN {currHighestMetaHdrNonce, MetaB.Nonce}
                                        ELSE {currHighestMetaHdrNonce} :
                                  currHighestMetaHdrNonce' = h
                            /\ IF left = 0
                               THEN \E n \in 0 .. MetaBlockFinality :
                                        missingFinalHdrs' = n
                               ELSE UNCHANGED missingFinalHdrs
              [] OTHER -> UNCHANGED <<missingHdrs, missingFinalHdrs,
                                      currHighestMetaHdrNonce>>

\* the driver thread: it starts one of its operations, or executes the next
\* instruction of the running one; after an unlock on a path with an error
\* return it may return
driverThread ==
    /\ \/ /\ pc = "idle"
          /\ \E op \in {"ProcessBlock", "CreateBlock", "CommitBlock",
                        "RestoreBlockIntoPools"}, waits \in BOOLEAN :
                /\ pc' = op
                /\ loc' = [kind |-> "locks", prog |-> DriverLocks(op, waits), ip |-> 1]
          /\ UNCHANGED <<tableVars, mutexVars>>
       \/ /\ pc # "idle"
          /\ LockStep("driver", loc.prog[loc.ip])
          /\ \E ret \in {b \in BOOLEAN : b => loc.prog[loc.ip][4] = "mayReturn"} :
                IF ret \/ loc.ip = Len(loc.prog)
                THEN pc' = "idle" /\ loc' = NoLoc
                ELSE pc' = pc /\ loc' = [loc EXCEPT !.ip = @ + 1]
          /\ UNCHANGED hdrHashAndInfo
    /\ UNCHANGED <<cur, err, disp, poolVars, chainVars, journalLen, requests, hist>>

\* one receivedMetaBlock call of delivery goroutine d, instruction by instruction
receivedThread(d) ==
    /\ \/ /\ disp[d].pc = "idle"
          /\ disp' = [disp EXCEPT ![d] = [pc |-> "receivedMetaBlock", ip |-> 1]]
          /\ UNCHANGED <<tableVars, mutexVars>>
       \/ /\ disp[d].pc = "receivedMetaBlock"
          /\ LET ins == receivedMetaBlockLocks[disp[d].ip]
                 next == IF ins[1] = "guard" /\ missingHdrs = 0 /\ missingFinalHdrs = 0
                         THEN disp[d].ip + 2
                         ELSE disp[d].ip + 1
             IN  /\ LockStep(ToString(d), ins)
                 /\ disp' = [disp EXCEPT ![d] =
                                IF next > Len(receivedMetaBlockLocks)
                                THEN [pc |-> "idle", ip |-> 0]
                                ELSE [pc |-> "receivedMetaBlock", ip |-> next]]
          /\ UNCHANGED hdrHashAndInfo
    /\ UNCHANGED <<pc, cur, err, loc, poolVars, chainVars, journalLen, requests, hist>>

InitLock ==
    /\ pc = "idle"
    /\ cur = NoBlock
    /\ err = "nil"
    /\ loc = NoLoc
    /\ hdrHashAndInfo = EmptyMap
    /\ missingHdrs = 0
    /\ missingFinalHdrs = 0
    /\ currHighestMetaHdrNonce = 0
    /\ mutHdrsForBlock = "free"
    /\ mutProcessedMiniBlocks = "free"
    /\ disp = [d \in Disp |-> [pc |-> "idle", ip |-> 0]]
    /\ pool = {}
    /\ headersNonces = EmptyMap
    /\ store = EmptyMap
    /\ processedMiniBlocks = EmptyMap
    /\ notarizedHdrs = <<MetaG>>
    /\ journalLen = 0
    /\ blockchain = NoBlock
    /\ requests = <<>>
    /\ hist = NoHist

NextLock ==
    \/ driverThread
    \/ \E d \in Disp : receivedThread(d)

SpecLock == InitLock /\ [][NextLock]_vars

\* the instruction a thread is about to execute
AtIns(t) ==
    IF t = "driver"
    THEN IF pc = "idle" THEN <<"none", "none", 0, "none">> ELSE loc.prog[loc.ip]
    ELSE LET d == CHOOSE x \in Disp : ToString(x) = t
         IN  IF disp[d].pc = "idle" THEN <<"none", "none", 0, "none">>
             ELSE receivedMetaBlockLocks[disp[d].ip]

Threads == {"driver"} \cup {ToString(d) : d \in Disp}

\* the accesses of AtIns to the header-tracking state
TableWrite(t) == AtIns(t)[1] = "write" /\ AtIns(t)[2] = "mutHdrsForBlock"
TableRead(t) == AtIns(t)[1] \in {"read", "guard"} /\ AtIns(t)[2] = "mutHdrsForBlock"

\* C37: every write of the driver and of receivedMetaBlock to the header-tracking
\* state (the table, missingHdrs, missingFinalHdrs, currHighestMetaHdrNonce) is made
\* while the writer holds the table mutex exclusively, no two threads are at such a
\* write together, and the state is read only while holding the mutex
C37_WritesUnderLock ==
    /\ \A t \in Threads :
          /\ TableWrite(t) => mutHdrsForBlock = "Lock:" \o t
          /\ TableRead(t) => mutHdrsForBlock \in {"Lock:" \o t, "RLock:" \o t}
    /\ \A t, u \in Threads : TableWrite(t) /\ TableWrite(u) => t = u

\* the maximum nonce among the table entries marked used whose header is present
HighestUsed(tbl) ==
    LET S == {tbl[h].hdr.Nonce : h \in {x \in UsedHashes(tbl) : tbl[x].hdr # NilHdr}}
    IN  IF S = {} THEN 0 ELSE CHOOSE n \in S : \A k \in S : k <= n

\* C38: in a validate cycle from the return of requestMetaHeaders on, deliveries
\* included, and in a build cycle after the selector has marked its entries,
\* currHighestMetaHdrNonce is the maximum nonce among the table entries marked used
\* whose header is present, and 0 when there is none
C38_HighestTracksUsed ==
    /\ (loc.kind = "process" /\
        pc \in {"IsDataPreparedForProcessing", "haveTime", "waitForMetaHdrHashes",
                "postWait", "checkMetaHeadersValidityAndFinality",
                "verifyCrossShardMiniBlockDstMe", "processBlockTransactions"})
            => currHighestMetaHdrNonce = HighestUsed(hdrHashAndInfo)
    /\ (loc.kind = "build" /\ pc = "returned" /\ err = "nil")
            => currHighestMetaHdrNonce = HighestUsed(hdrHashAndInfo)

\* ------------------------------------------------------------------------
\* The ledger operations applied in any order
\* ------------------------------------------------------------------------
MaxLedgerOps == 4

\* one call of addProcessedMiniBlock, removeProcessedMiniBlock or
\* removeAllProcessedMiniBlocks on the ledger, logged with the ledger before it
\* (remove takes no metablock and removeAll no miniblock: that field of the log
\* entry is fixed)
ledgerOp ==
    /\ pc = "idle"
    /\ loc.kind \in {"none", "ledger"}
    /\ LET ops == IF loc.kind = "ledger" THEN loc.ops ELSE <<>>
       IN  /\ Len(ops) < MaxLedgerOps
           /\ \E op \in {"add", "remove", "removeAll"},
                 m \in {hA, hB}, h \in {MiniBlockHash(mb1), MiniBlockHash(mb3)} :
                 /\ op # "add" => /\ op = "remove" => m = hA
                                  /\ op = "removeAll" => h = MiniBlockHash(mb1)
                 /\ processedMiniBlocks' =
                        CASE op = "add" -> addProcessedMiniBlock(processedMiniBlocks, m, h)
                          [] op = "remove" -> removeProcessedMiniBlock(processedMiniBlocks, h)
                          [] op = "removeAll" ->
                                removeAllProcessedMiniBlocks(processedMiniBlocks, m)
                 /\ loc' = [kind |-> "ledger",
                            ops |-> Append(ops, [op |-> op, meta |-> m, mb |-> h]),
                            before |-> processedMiniBlocks]
    /\ UNCHANGED <<pc, cur, err, tableVars, mutexVars, disp, poolVars, store,
                   notarizedHdrs, blockchain, journalLen, requests, hist>>

SpecLedger == Init /\ [][ledgerOp]_vars

\* whether the log has an add(m, h) with no later remove(h) and no later removeAll(m)
AddedAndKept(ops, m, h) ==
    \E i \in DOMAIN ops :
        /\ ops[i].op = "add" /\ ops[i].meta = m /\ ops[i].mb = h
        /\ \A j \in (i + 1) .. Len(ops) :
              /\ ~(ops[j].op = "remove" /\ ops[j].mb = h)
              /\ ~(ops[j].op = "removeAll" /\ ops[j].meta = m)

\* C39: after any sequence of ledger operations, isMiniBlockProcessed(m, h) is true
\* exactly when an add(m, h) was followed by no remove(h) and no removeAll(m);
\* getProcessedMiniBlocksHashes(m) is the set of those h; remove(h) takes h away
\* under every metablock and changes nothing else, removeAll(m) changes only m,
\* and an add of a pair that is processed already changes nothing
C39_LedgerSemantics ==
    loc.kind = "ledger" =>
        LET ops == loc.ops
            last == ops[Len(ops)]
            M == {hA, hB, hC}
            H == {MiniBlockHash(mb1), MiniBlockHash(mb2), MiniBlockHash(mb3)}
            was(m, h) == AddedAndKept(SubSeq(ops, 1, Len(ops) - 1), m, h)
            now(m, h) == isMiniBlockProcessed(processedMiniBlocks, m, h)
        IN  /\ \A m \in M, h \in H : now(m, h) = AddedAndKept(ops, m, h)
            /\ \A m \in M :
                  {h \in H : AddedAndKept(ops, m, h)} =
                      getProcessedMiniBlocksHashes(processedMiniBlocks, m)
            /\ last.op = "remove" =>
                  \A m \in M, h \in H : now(m, h) = (was(m, h) /\ h # last.mb)
            /\ last.op = "removeAll" =>
                  \A m \in M, h \in H : now(m, h) = (was(m, h) /\ m # last.meta)
            /\ last.op = "add" =>
                  \A m \in M, h \in H :
                      now(m, h) = (was(m, h) \/ (m = last.meta /\ h = last.mb))
            /\ (last.op = "add" /\ was(last.meta, last.mb)) =>
                  processedMiniBlocks = loc.before

\* a miniblock added under two metablocks and then removed is processed under neither
C39_RemovedUnderBoth ==
    /\ loc.kind = "ledger"
    /\ Len(loc.ops) = 3
    /\ loc.ops[3].op = "remove"
    /\ \A m \in {hA, hB} : isMiniBlockProcessed(loc.before, m, loc.ops[3].mb)
    /\ \A m \in {hA, hB} : ~isMiniBlockProcessed(processedMiniBlocks, m, loc.ops[3].mb)

\* the Go runtime schedules every goroutine, and a goroutine waiting in Lock or
\* RLock gets the mutex once it is released often enough (sync.Mutex hands a
\* starving waiter the mutex), hence strong fairness of each thread's steps
SpecLockLive ==
    /\ InitLock
    /\ [][NextLock]_vars
    /\ SF_vars(driverThread)
    /\ \A d \in Disp : SF_vars(receivedThread(d))

\* thread t holds mutex value mu
Holds(t, mu) == mu \in {"Lock:" \o t, "RLock:" \o t}

\* thread t is at a Lock or RLock of mutex mu
Wants(t, mu) == AtIns(t)[1] \in {"Lock", "RLock"} /\ AtIns(t)[2] = mu

\* a thread about to acquire the table mutex holds no mutex, and a thread about
\* to acquire the ledger mutex holds the table mutex or none
LockOrder ==
    \A t \in Threads :
        /\ (AtIns(t)[1] \in {"Lock", "RLock"} /\ AtIns(t)[2] = "mutHdrsForBlock") =>
              ~Holds(t, mutHdrsForBlock) /\ ~Holds(t, mutProcessedMiniBlocks)
        /\ (AtIns(t)[1] \in {"Lock", "RLock"} /\ AtIns(t)[2] = "mutProcessedMiniBlocks") =>
              ~Holds(t, mutProcessedMiniBlocks)

\* C40: over all interleavings of the driver's operations and the receivedMetaBlock
\* callbacks, the ledger mutex is acquired only by a thread holding the table mutex
\* or no mutex, the table mutex never by a thread holding the ledger mutex, and a
\* thread that has come to a Lock or RLock gets the mutex
C40_NoDeadlock ==
    /\ [](LockOrder)
    /\ \A t \in Threads :
          /\ Wants(t, "mutHdrsForBlock") ~> Holds(t, mutHdrsForBlock)
          /\ Wants(t, "mutProcessedMiniBlocks") ~> Holds(t, mutProcessedMiniBlocks)

\* the driver holds the table mutex shared and the ledger mutex exclusively (line
\* 1628 inside 845-864) while a callback waits at line 1047
C40_NestedWhileWaiting ==
    /\ mutHdrsForBlock = "RLock:driver"
    /\ mutProcessedMiniBlocks = "Lock:driver"
    /\ \E d \in Disp : Wants(ToString(d), "mutHdrsForBlock")

====
